---- MODULE Spec2Model ----
(***************************************************************************)
(* EcoBite: bearer-token authentication (src/auth.js) and the inventory    *)
(* item lifecycle with its time-derived status, as served by the three     *)
(* server variants found in the repository:                                *)
(*   "strict" : src/unnamed/part_000   (ownership with NULL owners,        *)
(*                                      check-then-set donate)             *)
(*   "notif"  : src/src/server.js:1-380 (notifications, table inventory)   *)
(*   "otp"    : src/server.js          (e-mail OTP, unconditional donate)  *)
(* Every await of a handler is a scheduling point: a handler is one action *)
(* per database round trip, so that concurrent requests interleave exactly *)
(* where the event loop lets them.                                         *)
(*                                                                         *)
(* Time is counted in seconds since the epoch (UTC); the server's timezone *)
(* is a fixed offset of tz hours east of UTC (no daylight saving).         *)
(* Calendar dates are day numbers.                                         *)
(***************************************************************************)
EXTENDS Integers, Sequences, FiniteSets, TLC

VARIABLES
    variant,        \* which server file is running
    tz,             \* timezone offset of the server process, in hours
    now,            \* Date.now() and the database's NOW(), in seconds
    items,          \* table food_items / inventory: a set of rows
    nextId,         \* AUTO_INCREMENT of the item table
    notifications,  \* table notifications, in insertion order
    reqs,           \* per client: the request in flight and its response
    issued,         \* number of requests issued so far
    secret,         \* process.env.JWT_SECRET
    tokens,         \* the tokens signToken has returned, each with what was asked
    auth,           \* the last call into src/auth.js and its outcome
    window,         \* process.env.CODE_EXPIRE_MINUTES
    users,          \* table users: a set of rows
    codes,          \* table verification_codes: a set of rows
    outbox,         \* the mails the transporter has accepted
    regs,           \* per client: the send-code or register request in flight
    db              \* the MySQL pool: "up", or "down" (every query rejects)

vars == <<variant, tz, now, items, nextId, notifications, reqs, issued,
          secret, tokens, auth, window, users, codes, outbox, regs, db>>

----------------------------------------------------------------------------
(* Bounds of the model *)

MaxOps == 2         \* requests issued in one run
MaxDate == 6        \* latest expiry date of the rows that are read back
MaxSkew == 2        \* seconds observed after an instant of interest
MaxRegOps == 2      \* send-code and register requests issued in one run

(* Program constants *)

Hour == 3600        \* the h of "2h", in seconds
Day == 86400        \* 1000 * 60 * 60 * 24 ms, in seconds
NearDays == 3       \* diffDays <= 3 is near_expiry

Variants == {"strict", "notif", "otp"}
Clients == {"c1", "c2"}
Users == {"u1", "u2"}
NULL == "NULL"
Owners == Users \cup {NULL}
TzOffsets == {-5, 8}

allowedAndDairy == {"Refrigerated", "Pantry", "Frozen", "Dairy"}

allowed == {"Refrigerated", "Pantry", "Frozen"}
DefaultStatus == "normal"

----------------------------------------------------------------------------
(* Dates *)

\* Math.ceil(a / b) for b > 0
Ceil(a, b) == -((-a) \div b)

\* today = new Date(); today.setHours(0,0,0,0): local midnight of the current day
LocalMidnight(t, z) == ((t + z * Hour) \div Day) * Day - z * Hour

\* a DATE column read by mysql2 (timezone 'local'): a Date at local midnight
DateFromDb(d, z) == d * Day - z * Hour

\* new Date("YYYY-MM-DD"): a date-only string is parsed as UTC midnight
DateFromString(d) == d * Day

computeStatusLe3(expiry_date, t, z) ==
    LET today == LocalMidnight(t, z)
        exp == DateFromDb(expiry_date, z)
    IN  IF exp < today THEN "expired"
        ELSE IF Ceil(exp - today, Day) < NearDays THEN "near_expiry" ELSE "available"

computeStatusNearPast(expiry_date, t, z) ==
    LET today == LocalMidnight(t, z)
        exp == DateFromDb(expiry_date, z)
        diffDays == Ceil(exp - today, Day)
    IN  IF diffDays < -NearDays THEN "available"
        ELSE IF exp < today THEN "expired"
        ELSE IF diffDays <= NearDays THEN "near_expiry" ELSE "available"

computeStatus(expiry_date, t, z) ==
    LET today == LocalMidnight(t, z)
        exp == DateFromDb(expiry_date, z)
    IN  IF exp < today THEN "expired"
        ELSE LET diffDays == Ceil(exp - today, Day)
             IN  IF diffDays <= NearDays THEN "near_expiry" ELSE "available"

displayStatusDateFirst(r, t, z) ==
    IF computeStatus(r.expiry_date, t, z) = "expired" THEN "expired"
    ELSE IF r.status = "donated" THEN "donated"
    ELSE computeStatus(r.expiry_date, t, z)

\* r.status === "donated" ? "donated" : computeStatus(r.expiry_date)
displayStatus(r, t, z) ==
    IF r.status = "donated" THEN "donated" ELSE computeStatus(r.expiry_date, t, z)

withStatus(r, t, z) == [r EXCEPT !.status = displayStatus(r, t, z)]

----------------------------------------------------------------------------
(* Rows, drafts and responses *)

\* item names are character sequences, so that trim() is computed
Milk == <<"M", "i", "l", "k">>
Blank == <<" ">>

RECURSIVE TrimLeft(_)
TrimLeft(s) == IF s # <<>> /\ Head(s) = " " THEN TrimLeft(Tail(s)) ELSE s

RECURSIVE TrimRight(_)
TrimRight(s) ==
    IF s # <<>> /\ s[Len(s)] = " " THEN TrimRight(SubSeq(s, 1, Len(s) - 1)) ELSE s

\* String.prototype.trim
trim(s) == TrimRight(TrimLeft(s))

\* a quantity is a JSON number, counted in halves: 4 is the number 2, 3 is 1.5
Halves == 2

\* Number.isInteger(Number(quantity))
isInteger(q) == q % Halves = 0

\* a request body: named tells whether it has a name at all
\* the request bodies tried: a valid draft and one with a blank name
Drafts ==
    {[named |-> TRUE, name |-> Milk, quantity |-> 2 * Halves,
      category |-> "Refrigerated", expiry_date |-> 5],
     [named |-> TRUE, name |-> Blank, quantity |-> 2 * Halves,
      category |-> "Pantry", expiry_date |-> 5]}

BlankDraft ==
    [named |-> FALSE, name |-> <<>>, quantity |-> 0, category |-> "", expiry_date |-> 0]

ZeroReport ==
    [Pantry |-> 0, Refrigerated |-> 0, Frozen |-> 0,
     Donated |-> 0, Expired |-> 0, NearExpiry |-> 0, Available |-> 0]

\* pre is a history field no handler reads: the stored rows with the
\* request's item id at the moment the request arrived
Idle ==
    [op |-> "none", user |-> NULL, id |-> 0, draft |-> BlankDraft, pc |-> "idle",
     pre |-> <<>>, code |-> 0, error |-> "", body |-> <<>>, report |-> ZeroReport]

\* res.status(code).json(...): the handler's single response
Respond(q, code, error, body, report) ==
    [q EXCEPT !.pc = "done", !.code = code, !.error = error,
              !.body = body, !.report = report]

RowAvailable(id, u, d, st) ==
    [id |-> id, user_id |-> u, name |-> trim(d.name), quantity |-> d.quantity,
     category |-> d.category, expiry_date |-> d.expiry_date, status |-> "available"]

\* a row of the item table; the INSERT of a create request names no status
Row(id, u, d, st) ==
    [id |-> id, user_id |-> u, name |-> trim(d.name), quantity |-> d.quantity,
     category |-> d.category, expiry_date |-> d.expiry_date, status |-> st]

\* the rows a SELECT ... WHERE id=? returns, as a list
RECURSIVE SortedRows(_)
SortedRows(S) ==
    IF S = {} THEN <<>>
    ELSE LET r == CHOOSE x \in S : \A y \in S :
                     \/ x.expiry_date < y.expiry_date
                     \/ x.expiry_date = y.expiry_date /\ x.id <= y.id
         IN  <<r>> \o SortedRows(S \ {r})

ById(S, id) == {r \in S : r.id = id}

\* the request a client sends; req.user is what authRequired attached
NewReq(op, u, id, draft) ==
    [Idle EXCEPT !.op = op, !.user = u, !.id = id, !.draft = draft,
                 !.pre = SortedRows(ById(items, id))]

OwnedOrSharedAny(r, u) == TRUE

\* WHERE user_id = ? OR user_id IS NULL  (strict, otp)
OwnedOrShared(r, u) == r.user_id = u \/ r.user_id = NULL

OwnedByAny(r, u) == TRUE

\* WHERE user_id = ?  (notif)
OwnedBy(r, u) == r.user_id = u

\* client c1 is logged in as u1, client c2 as either user (the users are
\* interchangeable, the owners of the initial rows are not fixed)
SessionUsers(c) == IF c = "c1" THEN {"u1"} ELSE Users

CanStart(c) == reqs[c].pc \in {"idle", "done"} /\ issued < MaxOps /\ db = "up"

----------------------------------------------------------------------------
(* Validation, status report *)

\* validateItem of the strict variant; "" stands for null (no error)
validateItem(d, t, z) ==
    IF ~d.named \/ trim(d.name) = <<>> THEN "Name is required"
    ELSE IF ~isInteger(d.quantity) \/ d.quantity <= 0
         THEN "Quantity must be a positive integer"
    ELSE IF d.category \notin allowed THEN "Category is required"
    ELSE IF DateFromString(d.expiry_date) < LocalMidnight(t, z)
         THEN "Expiry must be today or later"
    ELSE ""

\* validateItem of the otp variant: no rule on the expiry date
validateItemNoDate(d) ==
    IF ~d.named \/ trim(d.name) = <<>> THEN "Name required"
    ELSE IF ~isInteger(d.quantity) \/ d.quantity <= 0 THEN "Quantity must be positive"
    ELSE IF d.category \notin allowed THEN "Category invalid"
    ELSE ""

\* undefined.trim() throws
TypeError == "TypeError: Cannot read properties of undefined (reading 'trim')"

DbError == "connect ECONNREFUSED"

\* an async handler whose promise rejects outside any try/catch.  The
\* sources do not fix the version of express: express 4 leaves the request
\* without a response, express 5 hands the error to its default error
\* handler, which answers 500.
Unhandled(q, e) ==
    {[q EXCEPT !.pc = "crashed", !.error = e], Respond(q, 500, e, <<>>, ZeroReport)}

\* validateItem of the notif variant: name.trim() without a test of name,
\* !Number(quantity) without a test for an integer; it returns the message,
\* "" for null, or throws TypeError
validateItemLoose(d) ==
    IF ~d.named THEN TypeError
    ELSE IF trim(d.name) = <<>> THEN "Name required"
    ELSE IF d.quantity = 0 \/ d.quantity <= 0 THEN "Quantity must be positive"
    ELSE IF d.category \notin allowed THEN "Category invalid"
    ELSE ""

\* fixDate: parse as UTC midnight, setDate(getDate() + 1), toISOString().slice(0, 10)
fixDate(d) == (DateFromString(d) + Day) \div Day

\* one iteration of the report loop
ReportStepBoth(report, r, t, z) ==
    LET r1 == IF r.category \in DOMAIN report
              THEN [report EXCEPT ![r.category] = @ + 1] ELSE report
        s == computeStatus(r.expiry_date, t, z)
        r2 == IF r.status = "donated" THEN [r1 EXCEPT !.Donated = @ + 1] ELSE r1
    IN  IF s = "expired" THEN [r2 EXCEPT !.Expired = @ + 1]
        ELSE IF s = "near_expiry" THEN [r2 EXCEPT !.NearExpiry = @ + 1]
        ELSE [r2 EXCEPT !.Available = @ + 1]

ReportStep(report, r, t, z) ==
    LET r1 == IF r.category \in DOMAIN report
              THEN [report EXCEPT ![r.category] = @ + 1] ELSE report
    IN  IF r.status = "donated" THEN [r1 EXCEPT !.Donated = @ + 1]
        ELSE LET s == computeStatus(r.expiry_date, t, z)
             IN  IF s = "expired" THEN [r1 EXCEPT !.Expired = @ + 1]
                 ELSE IF s = "near_expiry" THEN [r1 EXCEPT !.NearExpiry = @ + 1]
                 ELSE [r1 EXCEPT !.Available = @ + 1]

\* for (const r of rows) { ... }
RECURSIVE summarize(_, _, _, _)
summarize(rows, report, t, z) ==
    IF rows = <<>> THEN report
    ELSE summarize(Tail(rows), ReportStep(report, Head(rows), t, z), t, z)

\* rows.map(r => ({...r, status: ...}))
RECURSIVE mapStatus(_, _, _)
mapStatus(rows, t, z) ==
    IF rows = <<>> THEN <<>>
    ELSE <<withStatus(Head(rows), t, z)>> \o mapStatus(Tail(rows), t, z)

\* createNotification: INSERT INTO notifications (user_id, title, message);
\* when the INSERT rejects, the function logs the error and returns
createNotification(ns, user_id, title) ==
    Append(ns, [user_id |-> user_id, title |-> title])

\* UPDATE ... SET status='donated' on the rows M that match the WHERE clause
SetDonatedToggle(S, M) ==
    {IF r \in M
     THEN [r EXCEPT !.status = IF @ = "donated" THEN DefaultStatus ELSE "donated"]
     ELSE r : r \in S}

SetDonated(S, M) ==
    {IF r \in M THEN [r EXCEPT !.status = "donated"] ELSE r : r \in S}

\* UPDATE ... SET name=?, quantity=?, category=?, expiry_date=? on the rows that match
SetFieldsResetStatus(S, d, e, M) ==
    {IF r \in M
     THEN [r EXCEPT !.name = trim(d.name), !.quantity = d.quantity,
                    !.category = d.category, !.expiry_date = e,
                    !.status = DefaultStatus]
     ELSE r : r \in S}

SetFields(S, d, e, M) ==
    {IF r \in M
     THEN [r EXCEPT !.name = trim(d.name), !.quantity = d.quantity,
                    !.category = d.category, !.expiry_date = e]
     ELSE r : r \in S}

----------------------------------------------------------------------------
(* Handlers of the strict variant (src/unnamed/part_000); the list, create  *)
(* and report handlers of the otp variant (src/server.js) run the same      *)
(* statements, with validateItem lacking the date rule.                     *)

Static ==
    UNCHANGED <<variant, tz, now, secret, tokens, auth, window, users, codes, outbox, regs, db>>

ItemIds == 1..nextId

\* GET /inventory
GetInventory(c, u) ==
    /\ CanStart(c) /\ variant \in {"strict", "otp"}
    /\ LET rows == SortedRows({r \in items : OwnedOrShared(r, u)})
       IN  reqs' = [reqs EXCEPT ![c] =
                Respond(NewReq("list", u, 0, BlankDraft), 200, "",
                        mapStatus(rows, now, tz), ZeroReport)]
    /\ issued' = issued + 1
    /\ UNCHANGED <<items, nextId, notifications>> /\ Static

\* POST /inventory
PostInventory(c, u, d) ==
    /\ CanStart(c) /\ variant \in {"strict", "otp"}
    /\ LET err == IF variant = "strict" THEN validateItem(d, now, tz)
                  ELSE validateItemNoDate(d)
           q == NewReq("create", u, nextId, d)
           row == Row(nextId, u, d, DefaultStatus)
       IN  IF err # ""
           THEN /\ reqs' = [reqs EXCEPT ![c] = Respond(q, 400, err, <<>>, ZeroReport)]
                /\ UNCHANGED <<items, nextId>>
           ELSE /\ items' = items \cup {row}
                /\ nextId' = nextId + 1
                /\ reqs' = [reqs EXCEPT ![c] =
                       Respond(q, 201, "",
                               <<[row EXCEPT !.name = d.name, !.status = "available"]>>,
                               ZeroReport)]
    /\ issued' = issued + 1
    /\ UNCHANGED notifications /\ Static

\* PUT /inventory/:id, up to the UPDATE
PutUpdate(c, u, id, d) ==
    /\ CanStart(c) /\ variant = "strict"
    /\ LET err == validateItem(d, now, tz)
           q == NewReq("update", u, id, d)
       IN  IF err # ""
           THEN /\ reqs' = [reqs EXCEPT ![c] = Respond(q, 400, err, <<>>, ZeroReport)]
                /\ UNCHANGED items
           ELSE /\ items' = SetFields(items, d, d.expiry_date,
                                      {r \in items : r.id = id /\ OwnedOrShared(r, u)})
                /\ reqs' = [reqs EXCEPT ![c] = [q EXCEPT !.pc = "put_select"]]
    /\ issued' = issued + 1
    /\ UNCHANGED <<nextId, notifications>> /\ Static

PutRespondComputed(c) ==
    /\ db = "up"
    /\ reqs[c].pc = "put_select" /\ variant = "strict"
    /\ LET rows == SortedRows(ById(items, reqs[c].id))
       IN  reqs' = [reqs EXCEPT ![c] =
                IF rows = <<>> THEN Respond(@, 200, "", <<>>, ZeroReport)
                ELSE Respond(@, 200, "",
                             <<[rows[1] EXCEPT !.status =
                                    computeStatus(rows[1].expiry_date, now, tz)]>>,
                             ZeroReport)]
    /\ UNCHANGED <<items, nextId, notifications, issued>> /\ Static

\* PUT /inventory/:id, the SELECT and the response
PutRespond(c) ==
    /\ db = "up"
    /\ reqs[c].pc = "put_select" /\ variant = "strict"
    /\ LET rows == SortedRows(ById(items, reqs[c].id))
       IN  reqs' = [reqs EXCEPT ![c] =
                IF rows = <<>> THEN Respond(@, 200, "", <<>>, ZeroReport)
                ELSE Respond(@, 200, "", <<withStatus(rows[1], now, tz)>>, ZeroReport)]
    /\ UNCHANGED <<items, nextId, notifications, issued>> /\ Static

\* DELETE /inventory/:id
DeleteInventory(c, u, id) ==
    /\ CanStart(c) /\ variant = "strict"
    /\ items' = {r \in items : ~(r.id = id /\ OwnedOrShared(r, u))}
    /\ reqs' = [reqs EXCEPT ![c] =
           Respond(NewReq("delete", u, id, BlankDraft), 204, "", <<>>, ZeroReport)]
    /\ issued' = issued + 1
    /\ UNCHANGED <<nextId, notifications>> /\ Static

\* POST /inventory/:id/donate, the SELECT and the two checks
DonateSelect(c, u, id) ==
    /\ CanStart(c) /\ variant = "strict"
    /\ LET rows == SortedRows({r \in ById(items, id) : OwnedOrShared(r, u)})
           q == NewReq("donate", u, id, BlankDraft)
       IN  reqs' = [reqs EXCEPT ![c] =
                IF rows = <<>>
                THEN Respond(q, 404, "Item not found", <<>>, ZeroReport)
                ELSE IF rows[1].status = "donated"
                THEN Respond(q, 400, "Already donated", <<>>, ZeroReport)
                ELSE [q EXCEPT !.pc = "donate_update"]]
    /\ issued' = issued + 1
    /\ UNCHANGED <<items, nextId, notifications>> /\ Static

\* POST /inventory/:id/donate, the UPDATE
DonateUpdate(c) ==
    /\ db = "up"
    /\ reqs[c].pc = "donate_update" /\ variant = "strict"
    /\ items' = SetDonated(items, {r \in items : r.id = reqs[c].id})
    /\ reqs' = [reqs EXCEPT ![c].pc = "donate_select"]
    /\ UNCHANGED <<nextId, notifications, issued>> /\ Static

\* POST /inventory/:id/donate, the second SELECT and the response
DonateRespond(c) ==
    /\ db = "up"
    /\ reqs[c].pc = "donate_select" /\ variant \in {"strict", "otp"}
    /\ LET after == SortedRows(ById(items, reqs[c].id))
       IN  reqs' = [reqs EXCEPT ![c] = Respond(@, 200, "", after, ZeroReport)]
    /\ UNCHANGED <<items, nextId, notifications, issued>> /\ Static

\* POST /inventory/:id/donate of the otp variant: the UPDATE comes first
DonateUpdateOtp(c, u, id) ==
    /\ CanStart(c) /\ variant = "otp"
    /\ items' = SetDonated(items, {r \in items : r.id = id})
    /\ reqs' = [reqs EXCEPT ![c] =
           [NewReq("donate", u, id, BlankDraft) EXCEPT !.pc = "donate_select"]]
    /\ issued' = issued + 1
    /\ UNCHANGED <<nextId, notifications>> /\ Static

GetReportOwnOnly(c, u) ==
    /\ CanStart(c) /\ variant \in {"strict", "otp"}
    /\ LET rows == SortedRows({r \in items : OwnedBy(r, u)})
       IN  reqs' = [reqs EXCEPT ![c] =
                Respond(NewReq("report", u, 0, BlankDraft), 200, "", <<>>,
                        summarize(rows, ZeroReport, now, tz))]
    /\ issued' = issued + 1
    /\ UNCHANGED <<items, nextId, notifications>> /\ Static

\* GET /report
GetReport(c, u) ==
    /\ CanStart(c) /\ variant \in {"strict", "otp"}
    /\ LET rows == SortedRows({r \in items : OwnedOrShared(r, u)})
       IN  reqs' = [reqs EXCEPT ![c] =
                Respond(NewReq("report", u, 0, BlankDraft), 200, "", <<>>,
                        summarize(rows, ZeroReport, now, tz))]
    /\ issued' = issued + 1
    /\ UNCHANGED <<items, nextId, notifications>> /\ Static

----------------------------------------------------------------------------
(* Handlers of the notif variant (src/src/server.js:1-380) *)

\* GET /inventory
GetInventoryN(c, u) ==
    /\ CanStart(c) /\ variant = "notif"
    /\ LET rows == SortedRows({r \in items : OwnedBy(r, u)})
       IN  reqs' = [reqs EXCEPT ![c] =
                Respond(NewReq("list", u, 0, BlankDraft), 200, "",
                        mapStatus(rows, now, tz), ZeroReport)]
    /\ issued' = issued + 1
    /\ UNCHANGED <<items, nextId, notifications>> /\ Static

\* POST /inventory, up to the INSERT
PostInsertN(c, u, d) ==
    /\ CanStart(c) /\ variant = "notif"
    /\ LET err == validateItemLoose(d)
           q == NewReq("create", u, nextId, d)
           finalDate == fixDate(d.expiry_date)
       IN  IF err = TypeError
           THEN /\ \E out \in Unhandled(q, TypeError) : reqs' = [reqs EXCEPT ![c] = out]
                /\ UNCHANGED <<items, nextId>>
           ELSE IF err # ""
           THEN /\ reqs' = [reqs EXCEPT ![c] = Respond(q, 400, err, <<>>, ZeroReport)]
                /\ UNCHANGED <<items, nextId>>
           ELSE /\ items' = items \cup
                       {[Row(nextId, u, d, DefaultStatus) EXCEPT !.expiry_date = finalDate]}
                /\ nextId' = nextId + 1
                /\ reqs' = [reqs EXCEPT ![c] = [q EXCEPT !.pc = "post_notify"]]
    /\ issued' = issued + 1
    /\ UNCHANGED notifications /\ Static

\* POST /inventory, the notification and the response
PostNotifyN(c) ==
    /\ reqs[c].pc = "post_notify" /\ variant = "notif"
    /\ notifications' = IF db = "up"
                        THEN createNotification(notifications, reqs[c].user, "New Item Added")
                        ELSE notifications
    /\ LET q == reqs[c]
           row == [Row(q.id, q.user, q.draft, "available") EXCEPT
                       !.name = q.draft.name,
                       !.expiry_date = fixDate(q.draft.expiry_date)]
       IN  reqs' = [reqs EXCEPT ![c] = Respond(q, 200, "", <<row>>, ZeroReport)]
    /\ UNCHANGED <<items, nextId, issued>> /\ Static

\* PUT /inventory/:id, up to the UPDATE
PutUpdateN(c, u, id, d) ==
    /\ CanStart(c) /\ variant = "notif"
    /\ LET err == validateItemLoose(d)
           q == NewReq("update", u, id, d)
       IN  IF err = TypeError
           THEN /\ \E out \in Unhandled(q, TypeError) : reqs' = [reqs EXCEPT ![c] = out]
                /\ UNCHANGED items
           ELSE IF err # ""
           THEN /\ reqs' = [reqs EXCEPT ![c] = Respond(q, 400, err, <<>>, ZeroReport)]
                /\ UNCHANGED items
           ELSE /\ items' = SetFields(items, d, fixDate(d.expiry_date),
                                      {r \in items : r.id = id /\ OwnedBy(r, u)})
                /\ reqs' = [reqs EXCEPT ![c] = [q EXCEPT !.pc = "put_select_n"]]
    /\ issued' = issued + 1
    /\ UNCHANGED <<nextId, notifications>> /\ Static

\* PUT /inventory/:id, the SELECT and res.json(rows[0])
PutRespondN(c) ==
    /\ db = "up"
    /\ reqs[c].pc = "put_select_n" /\ variant = "notif"
    /\ LET rows == SortedRows(ById(items, reqs[c].id))
       IN  reqs' = [reqs EXCEPT ![c] = Respond(@, 200, "", rows, ZeroReport)]
    /\ UNCHANGED <<items, nextId, notifications, issued>> /\ Static

\* DELETE /inventory/:id, the DELETE
DeleteN(c, u, id) ==
    /\ CanStart(c) /\ variant = "notif"
    /\ items' = {r \in items : ~(r.id = id /\ OwnedBy(r, u))}
    /\ reqs' = [reqs EXCEPT ![c] =
           [NewReq("delete", u, id, BlankDraft) EXCEPT !.pc = "delete_notify"]]
    /\ issued' = issued + 1
    /\ UNCHANGED <<nextId, notifications>> /\ Static

\* DELETE /inventory/:id, the notification and the response
DeleteNotifyN(c) ==
    /\ reqs[c].pc = "delete_notify" /\ variant = "notif"
    /\ notifications' = IF db = "up"
                        THEN createNotification(notifications, reqs[c].user, "Item Deleted")
                        ELSE notifications
    /\ reqs' = [reqs EXCEPT ![c] = Respond(@, 200, "", <<>>, ZeroReport)]
    /\ UNCHANGED <<items, nextId, issued>> /\ Static

\* POST /inventory/:id/donate, the UPDATE
DonateUpdateN(c, u, id) ==
    /\ CanStart(c) /\ variant = "notif"
    /\ items' = SetDonated(items, {r \in items : r.id = id /\ OwnedBy(r, u)})
    /\ reqs' = [reqs EXCEPT ![c] =
           [NewReq("donate", u, id, BlankDraft) EXCEPT !.pc = "donate_notify"]]
    /\ issued' = issued + 1
    /\ UNCHANGED <<nextId, notifications>> /\ Static

\* POST /inventory/:id/donate, the notification
DonateNotifyN(c) ==
    /\ reqs[c].pc = "donate_notify" /\ variant = "notif"
    /\ notifications' = IF db = "up"
                        THEN createNotification(notifications, reqs[c].user, "Item Donated")
                        ELSE notifications
    /\ reqs' = [reqs EXCEPT ![c].pc = "donate_select_n"]
    /\ UNCHANGED <<items, nextId, issued>> /\ Static

\* POST /inventory/:id/donate, the SELECT and res.json(rows[0])
DonateRespondN(c) ==
    /\ db = "up"
    /\ reqs[c].pc = "donate_select_n" /\ variant = "notif"
    /\ LET rows == SortedRows(ById(items, reqs[c].id))
       IN  reqs' = [reqs EXCEPT ![c] = Respond(@, 200, "", rows, ZeroReport)]
    /\ UNCHANGED <<items, nextId, notifications, issued>> /\ Static

\* GET /report
GetReportN(c, u) ==
    /\ CanStart(c) /\ variant = "notif"
    /\ LET rows == SortedRows({r \in items : OwnedBy(r, u)})
       IN  reqs' = [reqs EXCEPT ![c] =
                Respond(NewReq("report", u, 0, BlankDraft), 200, "", <<>>,
                        summarize(rows, ZeroReport, now, tz))]
    /\ issued' = issued + 1
    /\ UNCHANGED <<items, nextId, notifications>> /\ Static

\* notifications.created_at of the i-th inserted record: the time of the
\* INSERT, later for a later record
createdAt(ns, i) == i

\* ORDER BY created_at DESC over the records I of the table
RECURSIVE newestFirst(_, _)
newestFirst(ns, I) ==
    IF I = {} THEN <<>>
    ELSE LET i == CHOOSE x \in I : \A y \in I : createdAt(ns, x) >= createdAt(ns, y)
         IN  <<ns[i]>> \o newestFirst(ns, I \ {i})

GetNotificationsAll(c, u) ==
    /\ CanStart(c) /\ variant = "notif"
    /\ reqs' = [reqs EXCEPT ![c] =
           Respond(NewReq("notifications", u, 0, BlankDraft), 200, "",
                   newestFirst(notifications, DOMAIN notifications), ZeroReport)]
    /\ issued' = issued + 1
    /\ UNCHANGED <<items, nextId, notifications>> /\ Static

\* GET /notifications
GetNotificationsN(c, u) ==
    /\ CanStart(c) /\ variant = "notif"
    /\ LET mine == {i \in DOMAIN notifications : notifications[i].user_id = u}
       IN  reqs' = [reqs EXCEPT ![c] =
                Respond(NewReq("notifications", u, 0, BlankDraft), 200, "",
                        newestFirst(notifications, mine), ZeroReport)]
    /\ issued' = issued + 1
    /\ UNCHANGED <<items, nextId, notifications>> /\ Static

----------------------------------------------------------------------------
(* The pool failing.  A query on a pool that is down rejects; a handler     *)
(* with try/catch answers 500 with the error's message, a handler without   *)
(* leaves its promise rejected (see Unhandled).                             *)

\* the routes of each server file
Routes ==
    IF variant = "strict"
    THEN {"login", "list", "create", "update", "delete", "donate", "report"}
    ELSE IF variant = "otp" THEN {"login", "list", "create", "donate", "report"}
    ELSE {"login", "list", "create", "update", "delete", "donate", "report", "notifications"}

\* the handlers whose queries are inside try/catch
Caught(op) == variant \in {"strict", "otp"} \/ op = "create"

\* what validateItem gives for the body of a create or update request
Validation(op, d) ==
    IF op \notin {"create", "update"} THEN ""
    ELSE IF variant = "strict" THEN validateItem(d, now, tz)
    ELSE IF variant = "otp" THEN validateItemNoDate(d)
    ELSE validateItemLoose(d)

\* the pool goes down
DbDown ==
    /\ db = "up" /\ db' = "down"
    /\ UNCHANGED <<variant, tz, now, items, nextId, notifications, reqs, issued,
                   secret, tokens, auth, window, users, codes, outbox, regs>>

\* a request that arrives while the pool is down: validation, then the
\* handler's first query rejects
StartWhileDown(c, u, op, id, d) ==
    /\ reqs[c].pc \in {"idle", "done"} /\ issued < MaxOps /\ db = "down"
    /\ op \in Routes
    /\ LET q == NewReq(op, u, IF op = "create" THEN nextId
                              ELSE IF op \in {"update", "delete", "donate"} THEN id ELSE 0, d)
           err == Validation(op, d)
           outs == IF err = TypeError THEN Unhandled(q, TypeError)
                   ELSE IF err # "" THEN {Respond(q, 400, err, <<>>, ZeroReport)}
                   ELSE IF Caught(op) THEN {Respond(q, 500, DbError, <<>>, ZeroReport)}
                   ELSE Unhandled(q, DbError)
       IN  \E out \in outs : reqs' = [reqs EXCEPT ![c] = out]
    /\ issued' = issued + 1
    /\ UNCHANGED <<items, nextId, notifications>> /\ Static

\* a handler between two queries when the pool is down: its next query rejects
StepWhileDown(c) ==
    /\ db = "down"
    /\ reqs[c].pc \in {"put_select", "donate_update", "donate_select",
                       "put_select_n", "donate_select_n"}
    /\ LET q == reqs[c]
           outs == IF Caught(q.op) THEN {Respond(q, 500, DbError, <<>>, ZeroReport)}
                   ELSE Unhandled(q, DbError)
       IN  \E out \in outs : reqs' = [reqs EXCEPT ![c] = out]
    /\ UNCHANGED <<items, nextId, notifications, issued>> /\ Static

----------------------------------------------------------------------------
(* src/auth.js: signToken, verifyToken, authRequired, optionalAuth, and the *)
(* part of jsonwebtoken they call.  A token is its three parts: the header  *)
(* (always HS256, left out), the payload and the signature.  An HMAC is     *)
(* modelled by the pair of its key and the content it covers.               *)

NoSecret == ""
Secrets == {NoSecret, "k1"}
OtherKey == "k2"
MissingSecret == "[auth] Missing JWT_SECRET in environment."

EmailOf(u) == IF u = "u1" THEN "a@x.com" ELSE IF u = "u2" THEN "b@x.com" ELSE "z@x.com"
UserRec(u) == [id |-> u, email |-> EmailOf(u)]

NoPayload == [id |-> "", email |-> "", iat |-> 0, exp |-> 0]
Hmac(key, content) == [key |-> key, over |-> content]
NoToken == [parts |-> 0, payload |-> NoPayload, sig |-> Hmac("", NoPayload)]
Garbage == [NoToken EXCEPT !.parts = 1]

\* opts = {} or {expiresIn: n}
NoOpts == [has |-> FALSE, expiresIn |-> 0]
Opts(n) == [has |-> TRUE, expiresIn |-> n]

\* jsonwebtoken's timespan: a number counts seconds, the string "2h" is two hours
timespan(opts, iat) == IF opts.has THEN iat + opts.expiresIn ELSE iat + 2 * Hour

\* jwt.sign(payload, key, {expiresIn}) at time t
jwtSign(payload, key, opts, t) ==
    LET full == [id |-> payload.id, email |-> payload.email,
                 iat |-> t, exp |-> timespan(opts, t)]
    IN  [parts |-> 3, payload |-> full, sig |-> Hmac(key, full)]

jwtVerifyLate(token, key, t) ==
    IF token.parts # 3 THEN [ok |-> FALSE, error |-> "jwt malformed", payload |-> NoPayload]
    ELSE IF token.sig # Hmac(key, token.payload)
    THEN [ok |-> FALSE, error |-> "invalid signature", payload |-> NoPayload]
    ELSE IF t > token.payload.exp
    THEN [ok |-> FALSE, error |-> "jwt expired", payload |-> NoPayload]
    ELSE [ok |-> TRUE, error |-> "", payload |-> token.payload]

\* jwt.verify(token, key) at time t: the signature first, then the expiry
jwtVerify(token, key, t) ==
    IF token.parts # 3 THEN [ok |-> FALSE, error |-> "jwt malformed", payload |-> NoPayload]
    ELSE IF token.sig # Hmac(key, token.payload)
    THEN [ok |-> FALSE, error |-> "invalid signature", payload |-> NoPayload]
    ELSE IF t >= token.payload.exp
    THEN [ok |-> FALSE, error |-> "jwt expired", payload |-> NoPayload]
    ELSE [ok |-> TRUE, error |-> "", payload |-> token.payload]

\* requireSecret: throws when JWT_SECRET is not set
requireSecret == [ok |-> secret # NoSecret, error |-> MissingSecret, secret |-> secret]

signTokenIdAsEmail(user, opts, t) ==
    LET sec == requireSecret
    IN  IF ~sec.ok THEN [ok |-> FALSE, error |-> sec.error, token |-> NoToken]
        ELSE [ok |-> TRUE, error |-> "",
              token |-> jwtSign([id |-> user.id, email |-> user.id], sec.secret, opts, t)]

\* signToken(user, opts): the token, or the error thrown
signToken(user, opts, t) ==
    LET sec == requireSecret
    IN  IF ~sec.ok THEN [ok |-> FALSE, error |-> sec.error, token |-> NoToken]
        ELSE [ok |-> TRUE, error |-> "",
              token |-> jwtSign([id |-> user.id, email |-> user.email], sec.secret, opts, t)]

\* verifyToken(token): the payload, or the error thrown
verifyToken(token, t) ==
    LET sec == requireSecret
    IN  IF ~sec.ok THEN [ok |-> FALSE, error |-> sec.error, payload |-> NoPayload]
        ELSE jwtVerify(token, sec.secret, t)

\* a request's Authorization header: absent, or a scheme and what follows it
NoHeader == [scheme |-> "none", token |-> NoToken]

\* auth.startsWith("Bearer ") ? auth.slice(7).trim() : null
bearerToken(header) == IF header.scheme = "Bearer" THEN header.token ELSE NoToken

NoAuth ==
    [op |-> "none", at |-> 0, header |-> NoHeader, code |-> 0, error |-> "",
     user |-> NoPayload, next |-> 0, token |-> NoToken]

authRequiredAnyScheme(header, t) ==
    LET token == header.token
        q == [NoAuth EXCEPT !.op = "required", !.at = t, !.header = header]
    IN  IF token.parts = 0 THEN [q EXCEPT !.code = 401, !.error = "Missing token"]
        ELSE LET v == verifyToken(token, t)
             IN  IF v.ok THEN [q EXCEPT !.user = v.payload, !.next = 1]
                 ELSE [q EXCEPT !.code = 401, !.error = "Invalid or expired token"]

\* authRequired(req, res, next); next counts the calls of next()
authRequired(header, t) ==
    LET token == bearerToken(header)
        q == [NoAuth EXCEPT !.op = "required", !.at = t, !.header = header]
    IN  IF token.parts = 0 THEN [q EXCEPT !.code = 401, !.error = "Missing token"]
        ELSE LET v == verifyToken(token, t)
             IN  IF v.ok THEN [q EXCEPT !.user = v.payload, !.next = 1]
                 ELSE [q EXCEPT !.code = 401, !.error = "Invalid or expired token"]

optionalAuthDenying(header, t) ==
    LET token == bearerToken(header)
        q == [NoAuth EXCEPT !.op = "optional", !.at = t, !.header = header, !.next = 1]
    IN  IF token.parts = 0 THEN q
        ELSE LET v == verifyToken(token, t)
             IN  IF v.ok THEN [q EXCEPT !.user = v.payload]
                 ELSE [q EXCEPT !.next = 0, !.code = 401,
                                !.error = "Invalid or expired token"]

\* optionalAuth(req, _res, next)
optionalAuth(header, t) ==
    LET token == bearerToken(header)
        q == [NoAuth EXCEPT !.op = "optional", !.at = t, !.header = header, !.next = 1]
    IN  IF token.parts = 0 THEN q
        ELSE LET v == verifyToken(token, t)
             IN  IF v.ok THEN [q EXCEPT !.user = v.payload] ELSE q

\* tokens holds, for every token issued, the token and the call that made it
\* the tokens a client may present: the issued ones, an issued one with the
\* id or the expiry rewritten, one signed with another key, and junk
Issued == {k.token : k \in tokens}

Presentable ==
    Issued
    \cup {[k EXCEPT !.payload.id = "u9"] : k \in Issued}
    \cup {[k EXCEPT !.payload.exp = @ + Day] : k \in Issued}
    \cup {jwtSign(UserRec("u1"), OtherKey, NoOpts, now), Garbage}

Headers ==
    {NoHeader, [scheme |-> "Bearer", token |-> NoToken],
     [scheme |-> "Basic", token |-> Garbage]}
    \cup {[scheme |-> "Bearer", token |-> k] : k \in Presentable}
    \cup {[scheme |-> "Basic", token |-> k] : k \in Issued}

InventoryIdle ==
    UNCHANGED <<variant, tz, items, nextId, notifications, reqs, secret,
                window, users, codes, outbox, regs, db>>

CanCall == issued < MaxOps

\* expiresIn values tried besides the default
Ttls == {1, 2}

\* a direct call of signToken(user, opts)
SignToken(u, opts) ==
    /\ CanCall
    /\ LET r == signToken(UserRec(u), opts, now)
       IN  /\ auth' = [NoAuth EXCEPT !.op = "sign", !.at = now, !.error = r.error, !.token = r.token]
           /\ tokens' = IF r.ok
                        THEN tokens \cup {[token |-> r.token, user |-> UserRec(u),
                                           opts |-> opts, at |-> now]}
                        ELSE tokens
    /\ issued' = issued + 1
    /\ UNCHANGED now /\ InventoryIdle

\* POST /auth/login; only the users of Users are registered
Login(u, passwordOk) ==
    /\ CanCall
    /\ LET q == [NoAuth EXCEPT !.op = "login", !.at = now]
           r == signToken(UserRec(u), NoOpts, now)
       IN  IF u \notin Users \/ ~passwordOk
           THEN /\ auth' = [q EXCEPT !.code = 401, !.error = "Invalid credentials"]
                /\ UNCHANGED tokens
           ELSE IF r.ok
           THEN /\ auth' = [q EXCEPT !.code = 200, !.token = r.token]
                /\ tokens' = tokens \cup
                       {[token |-> r.token, user |-> UserRec(u), opts |-> NoOpts, at |-> now]}
           ELSE /\ auth' = IF variant = "notif"
                           THEN [q EXCEPT !.error = r.error]
                           ELSE [q EXCEPT !.code = 500, !.error = r.error]
                /\ UNCHANGED tokens
    /\ issued' = issued + 1
    /\ UNCHANGED now /\ InventoryIdle

\* a direct call of verifyToken(token)
VerifyToken(k) ==
    /\ CanCall
    /\ LET r == verifyToken(k, now)
       IN  auth' = [NoAuth EXCEPT !.op = "verify", !.at = now,
                                  !.header = [scheme |-> "call", token |-> k],
                                  !.error = r.error, !.user = r.payload]
    /\ issued' = issued + 1
    /\ UNCHANGED <<now, tokens>> /\ InventoryIdle

\* a request through authRequired
AuthRequired(h) ==
    /\ CanCall
    /\ auth' = authRequired(h, now)
    /\ issued' = issued + 1
    /\ UNCHANGED <<now, tokens>> /\ InventoryIdle

\* a request through optionalAuth
OptionalAuth(h) ==
    /\ CanCall
    /\ auth' = optionalAuth(h, now)
    /\ issued' = issued + 1
    /\ UNCHANGED <<now, tokens>> /\ InventoryIdle

\* the instants at which the token service is observed: the first seconds,
\* and the seconds around two hours later
ClockPoints ==
    {k : k \in 0..MaxSkew} \cup {2 * Hour + k : k \in 0..MaxSkew} \cup {2 * Hour - 1}

\* time passes
TickAuth ==
    /\ \E t \in ClockPoints : t > now /\ now' = t
    /\ UNCHANGED <<issued, tokens, auth>> /\ InventoryIdle

NoAuthState == secret = "k1" /\ tokens = {} /\ auth = NoAuth

\* CODE_EXPIRE_MINUTES not set
NoWindow == ""

\* a send-code or register request: what was submitted, where the handler
\* stands, what its queries returned (codeRows, the generated code) and the
\* response (status 0: none yet)
NoReg ==
    [op |-> "none", pc |-> "idle", email |-> "", password |-> "", code |-> <<>>,
     codeRows |-> <<>>, userRows |-> <<>>, at |-> 0, status |-> 0, error |-> "",
     token |-> NoToken]

NoRegState ==
    /\ window = NoWindow /\ users = {} /\ codes = {} /\ outbox = {}
    /\ regs = [c \in Clients |-> NoReg]

InitAuth ==
    /\ variant \in Variants
    /\ tz = 0
    /\ now = 0
    /\ items = {}
    /\ nextId = 1
    /\ notifications = <<>>
    /\ reqs = [c \in Clients |-> Idle]
    /\ issued = 0
    /\ secret \in Secrets
    /\ tokens = {}
    /\ auth = NoAuth
    /\ NoRegState
    /\ db = "up"

NextAuth ==
    \/ \E u \in Users, o \in {NoOpts} \cup {Opts(n) : n \in Ttls} : SignToken(u, o)
    \/ \E u \in Users \cup {"u9"}, ok \in BOOLEAN : Login(u, ok)
    \/ \E k \in Presentable : VerifyToken(k)
    \/ \E h \in Headers : AuthRequired(h)
    \/ \E h \in Headers : OptionalAuth(h)
    \/ TickAuth

SpecAuth == InitAuth /\ [][NextAuth]_vars

----------------------------------------------------------------------------
(* Registration: POST /auth/send-code and POST /auth/register of the otp    *)
(* and notif variants, POST /auth/register of the strict variant (which     *)
(* has no verification codes).  NOW() of the database has the resolution of *)
(* a second.                                                                *)

Minute == 60
Base == 100000
Scale == 900000

\* Math.random() returns n / (RandomGrain * Scale) for some n in
\* 0 .. RandomGrain * Scale - 1, so that Math.random() * Scale = n / RandomGrain
RandomGrain == 2
RandomDraws == {1, RandomGrain * Scale - 1}

\* Number.prototype.toString of a non-negative integer: its decimal digits
RECURSIVE toString(_)
toString(n) == IF n < 10 THEN <<n>> ELSE Append(toString(n \div 10), n % 10)

genCodeWide(n) == toString(Base + (n * 10) \div (RandomGrain * 9))

\* Math.floor(100000 + Math.random() * 900000).toString()
genCode(n) == toString(Base + n \div RandomGrain)

\* Number(s) for the strings CODE_EXPIRE_MINUTES is given
Number(s) == IF s = "0" THEN 0 ELSE IF s = "1" THEN 1 ELSE 2
Windows == {NoWindow, "1"}

\* Number(process.env.CODE_EXPIRE_MINUTES || 10)
expiresMinutes == IF window = NoWindow THEN 10 ELSE Number(window)

Emails == {"a@x.com", "b@x.com"}
Passwords == {"", "pw"}

\* what a client submits: the first client's address is a@x.com, the second
\* client's is either; only the first client leaves a field out
SentEmails(c) == IF c = "c1" THEN {"a@x.com", ""} ELSE Emails
Submissions(c) ==
    {[email |-> e, password |-> "pw"] : e \in SentEmails(c)}
    \cup (IF c = "c1" THEN {[email |-> "a@x.com", password |-> ""]} ELSE {})

\* bcrypt.hash(password, 10) and bcrypt.compare(password, hash): a hash is
\* modelled by the password it was made from
bcryptHash(password) == [bcrypt |-> password]
bcryptCompare(password, hash) == hash = bcryptHash(password)

\* the users table declares email unique: an INSERT of a taken email throws
emailTaken(email) == \E u \in users : u.email = email
DuplicateEntry == "Duplicate entry for key 'email'"

selectCodeLatestOnly(email, code, t) ==
    LET mine == {r \in codes : r.email = email}
        last == {r \in mine : \A o \in mine : o.id <= r.id}
    IN  IF \E r \in last : r.code = code /\ r.expires_at > t
        THEN <<CHOOSE r \in last : TRUE>> ELSE <<>>

\* SELECT * FROM verification_codes WHERE email=? AND code=?
\* AND expires_at > NOW() ORDER BY id DESC LIMIT 1
selectCode(email, code, t) ==
    LET match == {r \in codes : r.email = email /\ r.code = code /\ r.expires_at > t}
    IN  IF match = {} THEN <<>>
        ELSE <<CHOOSE r \in match : \A o \in match : o.id <= r.id>>

HasCodes == variant \in {"otp", "notif"}
CanReg(c) ==
    /\ regs[c].pc \in {"idle", "done"} /\ issued < MaxRegOps
    /\ c = "c1" \/ regs["c1"].op # "none"
Answer(q, status, error) == [q EXCEPT !.pc = "done", !.status = status, !.error = error]
RegIdle ==
    UNCHANGED <<variant, tz, items, nextId, notifications, reqs, secret, tokens, auth,
                window, db>>

\* POST /auth/send-code up to the INSERT
SendCode(c, email, n) ==
    /\ HasCodes /\ CanReg(c)
    /\ LET q == [NoReg EXCEPT !.op = "send", !.email = email, !.at = now]
       IN  IF email = ""
           THEN /\ regs' = [regs EXCEPT ![c] = Answer(q, 400, "Email required")]
                /\ UNCHANGED codes
           ELSE /\ codes' = codes \cup
                       {[id |-> Cardinality(codes) + 1, email |-> email,
                         code |-> genCode(n),
                         expires_at |-> now + expiresMinutes * Minute]}
                /\ regs' = [regs EXCEPT ![c] = [q EXCEPT !.pc = "mail", !.code = genCode(n)]]
    /\ issued' = issued + 1
    /\ UNCHANGED <<now, users, outbox>> /\ RegIdle

\* transporter.sendMail resolves or rejects, and the response
SendMail(c, delivered) ==
    /\ regs[c].pc = "mail"
    /\ IF delivered
       THEN /\ outbox' = outbox \cup {[to |-> regs[c].email, code |-> regs[c].code]}
            /\ regs' = [regs EXCEPT ![c] = Answer(@, 200, "")]
       ELSE /\ regs' = [regs EXCEPT ![c] =
                           Answer(@, 500, IF variant = "otp" THEN "Failed to send email"
                                          ELSE "Email sending failed")]
            /\ UNCHANGED outbox
    /\ UNCHANGED <<now, issued, users, codes>> /\ RegIdle

\* the codes a client may submit: any stored one, none, or a guess
SubmitCodes == {r.code : r \in codes} \cup {<<>>, toString(123456)}

InvalidCode ==
    IF variant = "otp" THEN "Invalid or expired verification code" ELSE "Invalid or expired OTP"

RegisterValidateNoExpiry(c, email, password, code) ==
    /\ HasCodes /\ CanReg(c)
    /\ LET q == [NoReg EXCEPT !.op = "register", !.email = email, !.at = now,
                              !.password = password, !.code = code]
           rows == selectCode(email, code, 0)
       IN  regs' = [regs EXCEPT ![c] =
               IF email = "" \/ password = "" THEN Answer(q, 400, "Email & password required")
               ELSE IF rows = <<>> THEN Answer(q, 400, InvalidCode)
               ELSE [q EXCEPT !.pc = "exists", !.codeRows = rows]]
    /\ issued' = issued + 1
    /\ UNCHANGED <<now, users, codes, outbox>> /\ RegIdle

\* POST /auth/register (otp, notif) up to the code query
RegisterValidate(c, email, password, code) ==
    /\ HasCodes /\ CanReg(c)
    /\ LET q == [NoReg EXCEPT !.op = "register", !.email = email, !.at = now,
                              !.password = password, !.code = code]
           rows == selectCode(email, code, now)
       IN  regs' = [regs EXCEPT ![c] =
               IF email = "" \/ password = "" THEN Answer(q, 400, "Email & password required")
               ELSE IF rows = <<>> THEN Answer(q, 400, InvalidCode)
               ELSE [q EXCEPT !.pc = "exists", !.codeRows = rows]]
    /\ issued' = issued + 1
    /\ UNCHANGED <<now, users, codes, outbox>> /\ RegIdle

RegisterExistsUnchecked(c) ==
    /\ regs[c].pc = "exists"
    /\ regs' = [regs EXCEPT ![c].pc = "insert"]
    /\ UNCHANGED <<now, issued, users, codes, outbox>> /\ RegIdle

\* SELECT id FROM users WHERE email=?, then bcrypt.hash
RegisterExists(c) ==
    /\ regs[c].pc = "exists"
    /\ regs' = [regs EXCEPT ![c] =
                   IF emailTaken(@.email) THEN Answer(@, 409, "Email already registered")
                   ELSE [@ EXCEPT !.pc = "insert"]]
    /\ UNCHANGED <<now, issued, users, codes, outbox>> /\ RegIdle

\* INSERT INTO users(email, password_hash), and the response
RegisterInsert(c) ==
    /\ HasCodes /\ regs[c].pc = "insert"
    /\ IF emailTaken(regs[c].email)
       THEN /\ regs' = [regs EXCEPT ![c] = Answer(@, 500, DuplicateEntry)]
            /\ UNCHANGED users
       ELSE /\ users' = users \cup
                   {[id |-> Cardinality(users) + 1, email |-> regs[c].email,
                     password_hash |-> bcryptHash(regs[c].password)]}
            /\ regs' = [regs EXCEPT ![c] =
                           Answer(@, IF variant = "otp" THEN 201 ELSE 200, "")]
    /\ UNCHANGED <<now, issued, codes, outbox>> /\ RegIdle

\* POST /auth/register (strict) up to the users query
RegisterStrict(c, email, password) ==
    /\ variant = "strict" /\ CanReg(c)
    /\ LET q == [NoReg EXCEPT !.op = "register", !.email = email, !.at = now,
                              !.password = password]
       IN  regs' = [regs EXCEPT ![c] =
               IF email = "" \/ password = "" THEN Answer(q, 400, "Email & password required")
               ELSE IF emailTaken(email) THEN Answer(q, 409, "Email already registered")
               ELSE [q EXCEPT !.pc = "insert"]]
    /\ issued' = issued + 1
    /\ UNCHANGED <<now, users, codes, outbox>> /\ RegIdle

\* INSERT INTO users, signToken(user), and the response (strict)
RegisterInsertStrict(c) ==
    /\ variant = "strict" /\ regs[c].pc = "insert"
    /\ IF emailTaken(regs[c].email)
       THEN /\ regs' = [regs EXCEPT ![c] = Answer(@, 500, DuplicateEntry)]
            /\ UNCHANGED users
       ELSE LET user == [id |-> Cardinality(users) + 1, email |-> regs[c].email,
                         password_hash |-> bcryptHash(regs[c].password)]
                r == signToken(user, NoOpts, now)
            IN  /\ users' = users \cup {user}
                /\ regs' = [regs EXCEPT ![c] =
                       IF r.ok THEN [Answer(@, 201, "") EXCEPT !.token = r.token]
                       ELSE Answer(@, 500, r.error)]
    /\ UNCHANGED <<now, issued, codes, outbox>> /\ RegIdle

\* the instants at which registration is observed: the start, and the
\* seconds around the end of a window that started then
RegClock == {0, expiresMinutes * Minute - 1, expiresMinutes * Minute}

TickReg ==
    /\ \E t \in RegClock : t > now /\ now' = t
    /\ UNCHANGED <<issued, users, codes, outbox, regs>> /\ RegIdle

\* the code tables a run starts from: empty, or holding the record of a
\* send-code for a@x.com that was served and delivered at time 0
SentBefore ==
    [id |-> 1, email |-> "a@x.com", code |-> genCode(1),
     expires_at |-> expiresMinutes * Minute]
InitCodes == {{}, {SentBefore}}

InitReg ==
    /\ variant \in Variants
    /\ tz = 0
    /\ now = 0
    /\ items = {}
    /\ nextId = 1
    /\ notifications = <<>>
    /\ reqs = [c \in Clients |-> Idle]
    /\ issued = 0
    /\ NoAuthState
    /\ window \in Windows
    /\ users = {}
    /\ codes \in InitCodes
    /\ outbox = {[to |-> r.email, code |-> r.code] : r \in codes}
    /\ regs = [c \in Clients |-> NoReg]
    /\ db = "up"

NextReg ==
    \/ \E c \in Clients : \E e \in SentEmails(c), n \in RandomDraws : SendCode(c, e, n)
    \/ \E c \in Clients, ok \in BOOLEAN : SendMail(c, ok)
    \/ \E c \in Clients : \E s \in Submissions(c), k \in SubmitCodes :
           RegisterValidate(c, s.email, s.password, k)
    \/ \E c \in Clients : RegisterExists(c)
    \/ \E c \in Clients : RegisterInsert(c)
    \/ \E c \in Clients : \E s \in Submissions(c) : RegisterStrict(c, s.email, s.password)
    \/ \E c \in Clients : RegisterInsertStrict(c)
    \/ TickReg

SpecReg == InitReg /\ [][NextReg]_vars

----------------------------------------------------------------------------
(* POST /auth/login of the three server files, over a users table that is   *)
(* empty or holds the users that registered.                                *)

\* a field that the request body does not have
Undefined == "undefined"
IllegalArguments == "Illegal arguments: undefined, string"

\* what a login request submits: the password of the first user is "pw"
LoginEmails == {Undefined, "", "a@x.com", "b@x.com", "c@x.com"}
LoginPasswords == {Undefined, "", "pw", "pw2"}

Registered(id, email, password) ==
    [id |-> id, email |-> email, password_hash |-> bcryptHash(password)]
InitUsers ==
    {{}, {Registered(1, "a@x.com", "pw")},
     {Registered(1, "a@x.com", "pw"), Registered(2, "b@x.com", "pw2")}}

LoginIdle ==
    UNCHANGED <<variant, tz, now, items, nextId, notifications, reqs, secret, auth,
                window, users, codes, outbox, db>>

\* the handler's answer when signToken throws: the catch, or none
Thrown(q, e) ==
    IF variant = "notif"
    THEN {[q EXCEPT !.pc = "crashed", !.error = e], Answer(q, 500, e)}
    ELSE {Answer(q, 500, e)}

LoginQueryUnchecked(c, email, password) ==
    /\ regs[c].pc \in {"idle", "done", "crashed"} /\ issued < MaxOps
    /\ LET q == [NoReg EXCEPT !.op = "login", !.email = email, !.password = password,
                              !.at = now]
           rows == {u \in users : TRUE}
       IN  regs' = [regs EXCEPT ![c] =
               IF variant # "notif" /\ (email \in {Undefined, ""} \/ password \in {Undefined, ""})
               THEN Answer(q, 400, "Email & password required")
               ELSE IF rows = {} THEN Answer(q, 401, "Invalid credentials")
               ELSE [q EXCEPT !.pc = "compare", !.userRows = <<CHOOSE u \in rows : TRUE>>]]
    /\ issued' = issued + 1
    /\ UNCHANGED tokens /\ LoginIdle

\* POST /auth/login up to the users query
LoginQuery(c, email, password) ==
    /\ regs[c].pc \in {"idle", "done", "crashed"} /\ issued < MaxOps
    /\ LET q == [NoReg EXCEPT !.op = "login", !.email = email, !.password = password,
                              !.at = now]
           rows == {u \in users : u.email = email}
       IN  regs' = [regs EXCEPT ![c] =
               IF variant # "notif" /\ (email \in {Undefined, ""} \/ password \in {Undefined, ""})
               THEN Answer(q, 400, "Email & password required")
               ELSE IF rows = {} THEN Answer(q, 401, "Invalid credentials")
               ELSE [q EXCEPT !.pc = "compare", !.userRows = <<CHOOSE u \in rows : TRUE>>]]
    /\ issued' = issued + 1
    /\ UNCHANGED tokens /\ LoginIdle

\* POST /auth/login: bcrypt.compare, signToken and the response
LoginCompare(c) ==
    /\ regs[c].pc = "compare"
    /\ LET q == regs[c]
           user == q.userRows[1]
           r == signToken(user, NoOpts, now)
       IN  IF q.password = Undefined
           THEN /\ \E out \in Thrown(q, IllegalArguments) : regs' = [regs EXCEPT ![c] = out]
                /\ UNCHANGED tokens
           ELSE IF ~bcryptCompare(q.password, user.password_hash)
           THEN /\ regs' = [regs EXCEPT ![c] = Answer(q, 401, "Invalid credentials")]
                /\ UNCHANGED tokens
           ELSE IF ~r.ok
           THEN /\ \E out \in Thrown(q, r.error) : regs' = [regs EXCEPT ![c] = out]
                /\ UNCHANGED tokens
           ELSE /\ regs' = [regs EXCEPT ![c] = [Answer(q, 200, "") EXCEPT !.token = r.token]]
                /\ tokens' = tokens \cup
                       {[token |-> r.token, user |-> [id |-> user.id, email |-> user.email],
                         opts |-> NoOpts, at |-> now]}
    /\ UNCHANGED issued /\ LoginIdle

InitLogin ==
    /\ variant \in Variants
    /\ tz = 0
    /\ now = 0
    /\ items = {}
    /\ nextId = 1
    /\ notifications = <<>>
    /\ reqs = [c \in Clients |-> Idle]
    /\ issued = 0
    /\ secret \in Secrets
    /\ tokens = {}
    /\ auth = NoAuth
    /\ window = NoWindow
    /\ users \in InitUsers
    /\ codes = {}
    /\ outbox = {}
    /\ regs = [c \in Clients |-> NoReg]
    /\ db = "up"

NextLogin ==
    \/ \E c \in Clients, e \in LoginEmails, p \in LoginPasswords : LoginQuery(c, e, p)
    \/ \E c \in Clients : LoginCompare(c)

SpecLogin == InitLogin /\ [][NextLogin]_vars

----------------------------------------------------------------------------
(* The initial state *)

\* the store the server finds when it starts: empty, or one earlier row,
\* possibly a legacy row without owner, possibly donated already
OldDraft ==
    [named |-> TRUE, name |-> Milk, quantity |-> 2 * Halves, category |-> "Pantry",
     expiry_date |-> 0]

InitStores ==
    {{}, {Row(1, "u1", OldDraft, "donated")}}
    \cup {{Row(1, o, OldDraft, DefaultStatus)} : o \in Owners}

\* the time the requests arrive: 09:00 UTC on day 0, or a day later; the
\* handlers of one run are over within the hour
StartHours == {9 * Hour, Day + 9 * Hour}

Init ==
    /\ variant \in Variants
    /\ tz \in TzOffsets
    /\ now \in StartHours
    /\ items \in InitStores
    /\ nextId = Cardinality(items) + 1
    /\ notifications = <<>>
    /\ reqs = [c \in Clients |-> Idle]
    /\ issued = 0
    /\ NoAuthState
    /\ NoRegState
    /\ db = "up"

Next ==
    \/ \E c \in Clients : \E u \in SessionUsers(c) : GetInventory(c, u)
    \/ \E c \in Clients : \E u \in SessionUsers(c), d \in Drafts : PostInventory(c, u, d)
    \/ \E c \in Clients : \E u \in SessionUsers(c), id \in ItemIds, d \in Drafts : PutUpdate(c, u, id, d)
    \/ \E c \in Clients : PutRespond(c)
    \/ \E c \in Clients : \E u \in SessionUsers(c), id \in ItemIds : DeleteInventory(c, u, id)
    \/ \E c \in Clients : \E u \in SessionUsers(c), id \in ItemIds : DonateSelect(c, u, id)
    \/ \E c \in Clients : DonateUpdate(c)
    \/ \E c \in Clients : DonateRespond(c)
    \/ \E c \in Clients : \E u \in SessionUsers(c), id \in ItemIds : DonateUpdateOtp(c, u, id)
    \/ \E c \in Clients : \E u \in SessionUsers(c) : GetReport(c, u)
    \/ \E c \in Clients : \E u \in SessionUsers(c) : GetInventoryN(c, u)
    \/ \E c \in Clients : \E u \in SessionUsers(c), d \in Drafts : PostInsertN(c, u, d)
    \/ \E c \in Clients : PostNotifyN(c)
    \/ \E c \in Clients : \E u \in SessionUsers(c), id \in ItemIds, d \in Drafts : PutUpdateN(c, u, id, d)
    \/ \E c \in Clients : PutRespondN(c)
    \/ \E c \in Clients : \E u \in SessionUsers(c), id \in ItemIds : DeleteN(c, u, id)
    \/ \E c \in Clients : DeleteNotifyN(c)
    \/ \E c \in Clients : \E u \in SessionUsers(c), id \in ItemIds : DonateUpdateN(c, u, id)
    \/ \E c \in Clients : DonateNotifyN(c)
    \/ \E c \in Clients : DonateRespondN(c)
    \/ \E c \in Clients : \E u \in SessionUsers(c) : GetReportN(c, u)

Spec == Init /\ [][Next]_vars

----------------------------------------------------------------------------
(* The read paths on their own: the list and the report of every variant,   *)
(* over stores of one or two rows with any expiry date, at several times of *)
(* day around midnight.                                                      *)

ReadStores ==
    LET first == {Row(1, "u1", [OldDraft EXCEPT !.expiry_date = e], st) :
                      e \in 0..MaxDate, st \in {DefaultStatus, "donated"}}
        second == {Row(2, o, [OldDraft EXCEPT !.category = "Frozen", !.expiry_date = e], st) :
                      o \in {"u1", NULL}, e \in {1, 4}, st \in {DefaultStatus, "donated"}}
    IN  {{r} : r \in first} \cup {{r1, r2} : r1 \in first, r2 \in second}

ReadHours == {d * Day + h * Hour : d \in {1, 2}, h \in {0, 23}}

InitRead ==
    /\ variant \in Variants
    /\ tz \in TzOffsets
    /\ now \in ReadHours
    /\ items \in ReadStores
    /\ nextId = Cardinality(items) + 1
    /\ notifications = <<>>
    /\ reqs = [c \in Clients |-> Idle]
    /\ issued = 0
    /\ NoAuthState
    /\ NoRegState
    /\ db = "up"

NextRead ==
    \/ \E c \in Clients : \E u \in SessionUsers(c) : GetInventory(c, u)
    \/ \E c \in Clients : \E u \in SessionUsers(c) : GetReport(c, u)
    \/ \E c \in Clients : \E u \in SessionUsers(c) : GetInventoryN(c, u)
    \/ \E c \in Clients : \E u \in SessionUsers(c) : GetReportN(c, u)

SpecRead == InitRead /\ [][NextRead]_vars

----------------------------------------------------------------------------
(* One request on its own, with any body and with the pool going down at    *)
(* any moment.                                                              *)

GoodDraft == [named |-> TRUE, name |-> Milk, quantity |-> 2 * Halves,
              category |-> "Frozen", expiry_date |-> 2]

\* the bodies that differ from GoodDraft in at most one field: the name
\* missing, empty or blank, the quantity -1, 0, 0.5 or 1.5, an unknown
\* category, an earlier date
WideDrafts ==
    {d \in [named : BOOLEAN, name : {<<>>, Blank, Milk}, quantity : {-2, 0, 1, 3, 2 * Halves},
            category : {"Frozen", "Dairy"}, expiry_date : 0..2] :
        /\ ~d.named => d.name = <<>>
        /\ Cardinality({f \in {"quantity", "category", "expiry_date"} : d[f] # GoodDraft[f]}
                       \cup (IF d.named /\ d.name = Milk THEN {} ELSE {"name"})) <= 1}

\* the bodies sent while the pool is down
DownDrafts == {d \in WideDrafts : d.category = "Frozen" /\ d.expiry_date = 2}

InitSingle ==
    /\ variant \in Variants
    /\ tz \in TzOffsets
    /\ now \in StartHours
    /\ items \in InitStores
    /\ nextId = Cardinality(items) + 1
    /\ notifications = <<>>
    /\ reqs = [c \in Clients |-> Idle]
    /\ issued = MaxOps - 1
    /\ NoAuthState
    /\ NoRegState
    /\ db = "up"

NextSingle ==
    \/ \E c \in Clients : \E u \in SessionUsers(c), d \in WideDrafts : PostInventory(c, u, d)
    \/ \E c \in Clients : \E u \in SessionUsers(c), id \in ItemIds, d \in WideDrafts :
           PutUpdate(c, u, id, d)
    \/ \E c \in Clients : PutRespond(c)
    \/ \E c \in Clients : \E u \in SessionUsers(c), id \in ItemIds : DeleteInventory(c, u, id)
    \/ \E c \in Clients : \E u \in SessionUsers(c), id \in ItemIds : DonateSelect(c, u, id)
    \/ \E c \in Clients : DonateUpdate(c)
    \/ \E c \in Clients : DonateRespond(c)
    \/ \E c \in Clients : \E u \in SessionUsers(c), id \in ItemIds : DonateUpdateOtp(c, u, id)
    \/ \E c \in Clients : \E u \in SessionUsers(c), d \in WideDrafts : PostInsertN(c, u, d)
    \/ \E c \in Clients : PostNotifyN(c)
    \/ \E c \in Clients : \E u \in SessionUsers(c), id \in ItemIds, d \in WideDrafts :
           PutUpdateN(c, u, id, d)
    \/ \E c \in Clients : PutRespondN(c)
    \/ \E c \in Clients : \E u \in SessionUsers(c), id \in ItemIds : DeleteN(c, u, id)
    \/ \E c \in Clients : DeleteNotifyN(c)
    \/ \E c \in Clients : \E u \in SessionUsers(c), id \in ItemIds : DonateUpdateN(c, u, id)
    \/ \E c \in Clients : DonateNotifyN(c)
    \/ \E c \in Clients : DonateRespondN(c)
    \/ DbDown
    \/ \E c \in Clients : \E u \in SessionUsers(c), op \in Routes, id \in ItemIds,
                             d \in DownDrafts :
           StartWhileDown(c, u, op, id, d)
    \/ \E c \in Clients : StepWhileDown(c)

\* issued starts one short of MaxOps: a single request per run
SpecSingle == InitSingle /\ [][NextSingle]_vars

----------------------------------------------------------------------------
(* Creating items with expiry dates around today, and listing them *)

DateDrafts == {[GoodDraft EXCEPT !.expiry_date = e] : e \in 0..(NearDays + 2)}

InitCreate ==
    /\ variant \in Variants
    /\ tz \in TzOffsets
    /\ now \in StartHours
    /\ items \in InitStores
    /\ nextId = Cardinality(items) + 1
    /\ notifications = <<>>
    /\ reqs = [c \in Clients |-> Idle]
    /\ issued = 0
    /\ NoAuthState
    /\ NoRegState
    /\ db = "up"

NextCreate ==
    \/ \E c \in Clients : \E u \in SessionUsers(c) : GetInventory(c, u)
    \/ \E c \in Clients : \E u \in SessionUsers(c), d \in DateDrafts : PostInventory(c, u, d)
    \/ \E c \in Clients : \E u \in SessionUsers(c) : GetInventoryN(c, u)
    \/ \E c \in Clients : \E u \in SessionUsers(c), d \in DateDrafts : PostInsertN(c, u, d)
    \/ \E c \in Clients : PostNotifyN(c)

SpecCreate == InitCreate /\ [][NextCreate]_vars

----------------------------------------------------------------------------
(* The notifications of the notif variant (src/src/server.js): the handlers *)
(* that store one and the one that lists them, from a table that is empty   *)
(* or holds a record of each user.                                          *)

InitNotes ==
    {<<>>, <<[user_id |-> "u2", title |-> "New Item Added"],
             [user_id |-> "u1", title |-> "Item Donated"]>>}

InitNotif ==
    /\ variant = "notif"
    /\ tz \in TzOffsets
    /\ now \in StartHours
    /\ items \in InitStores
    /\ nextId = Cardinality(items) + 1
    /\ notifications \in InitNotes
    /\ reqs = [c \in Clients |-> Idle]
    /\ issued = 0
    /\ NoAuthState
    /\ NoRegState
    /\ db = "up"

NextNotif ==
    \/ \E c \in Clients : \E u \in SessionUsers(c), d \in Drafts : PostInsertN(c, u, d)
    \/ \E c \in Clients : PostNotifyN(c)
    \/ \E c \in Clients : \E u \in SessionUsers(c), id \in ItemIds : DeleteN(c, u, id)
    \/ \E c \in Clients : DeleteNotifyN(c)
    \/ \E c \in Clients : \E u \in SessionUsers(c), id \in ItemIds : DonateUpdateN(c, u, id)
    \/ \E c \in Clients : DonateNotifyN(c)
    \/ \E c \in Clients : DonateRespondN(c)
    \/ \E c \in Clients : \E u \in SessionUsers(c) : GetNotificationsN(c, u)

SpecNotif == InitNotif /\ [][NextNotif]_vars

----------------------------------------------------------------------------
(* The clock advancing over a store that nobody changes: the days from the  *)
(* first to two past the last expiry date, observed a second before each    *)
(* local midnight, at it and at noon, and a list at any of these times.     *)

ClockStores ==
    {{Row(1, "u1", [OldDraft EXCEPT !.expiry_date = e], st)} :
        e \in 0..MaxDate, st \in {DefaultStatus, "donated"}}

ClockGrid(z) ==
    {d * Day - z * Hour + o : d \in 1..(MaxDate + 2), o \in {-1, 0, 12 * Hour}}

\* time passes
TickClock ==
    /\ \E t \in ClockGrid(tz) : t > now /\ now' = t
    /\ UNCHANGED <<variant, tz, items, nextId, notifications, reqs, issued, secret, tokens,
                   auth, window, users, codes, outbox, regs, db>>

InitClock ==
    /\ variant \in Variants
    /\ tz \in TzOffsets
    /\ now = 12 * Hour
    /\ items \in ClockStores
    /\ nextId = 2
    /\ notifications = <<>>
    /\ reqs = [c \in Clients |-> Idle]
    /\ issued = MaxOps - 1
    /\ NoAuthState
    /\ NoRegState
    /\ db = "up"

NextClock ==
    \/ TickClock
    \/ GetInventory("c1", "u1")
    \/ GetInventoryN("c1", "u1")

SpecClock == InitClock /\ [][NextClock]_vars

\* no background job is needed for time to pass
SpecClockFair == SpecClock /\ WF_vars(TickClock)

----------------------------------------------------------------------------
(* Stores built through create and update with any category, and the report *)

CategoryDrafts ==
    {[GoodDraft EXCEPT !.category = k] : k \in {"Refrigerated", "Pantry", "Frozen", "Dairy"}}

InitReport ==
    /\ variant \in Variants
    /\ tz \in TzOffsets
    /\ now \in StartHours
    /\ items \in InitStores
    /\ nextId = Cardinality(items) + 1
    /\ notifications = <<>>
    /\ reqs = [c \in Clients |-> Idle]
    /\ issued = 0
    /\ NoAuthState
    /\ NoRegState
    /\ db = "up"

NextReport ==
    \/ \E c \in Clients : \E u \in SessionUsers(c), d \in CategoryDrafts : PostInventory(c, u, d)
    \/ \E c \in Clients : \E u \in SessionUsers(c), id \in ItemIds, d \in CategoryDrafts :
           PutUpdate(c, u, id, d)
    \/ \E c \in Clients : PutRespond(c)
    \/ \E c \in Clients : \E u \in SessionUsers(c) : GetReport(c, u)
    \/ \E c \in Clients : \E u \in SessionUsers(c), d \in CategoryDrafts : PostInsertN(c, u, d)
    \/ \E c \in Clients : PostNotifyN(c)
    \/ \E c \in Clients : \E u \in SessionUsers(c), id \in ItemIds, d \in CategoryDrafts :
           PutUpdateN(c, u, id, d)
    \/ \E c \in Clients : PutRespondN(c)
    \/ \E c \in Clients : \E u \in SessionUsers(c) : GetReportN(c, u)

SpecReport == InitReport /\ [][NextReport]_vars

----------------------------------------------------------------------------
(* Properties of donate *)

Stepped(c) == reqs'[c] # reqs[c]

Succeeded(q) == q.pc = "done" /\ q.code = 200

DonatedNotes == {i \in DOMAIN notifications : notifications[i].title = "Item Donated"}

\* both clients asked to donate the same item, and each request arrived
\* while the item was stored, owned by the caller and not donated
ConcurrentDonates ==
    /\ \A c \in Clients :
          /\ reqs[c].op = "donate"
          /\ reqs[c].pre # <<>>
          /\ reqs[c].pre[1].status # "donated"
          /\ reqs[c].pre[1].user_id = reqs[c].user
    /\ reqs["c1"].id = reqs["c2"].id

\* C1: of two concurrent donate requests on the same non-donated item at
\* most one succeeds, and at most one 'Item Donated' notification is created.
C1_AtMostOneDonateSucceeds ==
    ConcurrentDonates =>
        /\ ~(\A c \in Clients : Succeeded(reqs[c]))
        /\ Cardinality(DonatedNotes) <= 1

\* C2: every step of a donate request that arrived when the item was already
\* donated leaves the items and the notifications as they are, and its
\* response is an error.
C2_DonateOnDonatedRejected ==
    [][\A c \in Clients :
          (/\ Stepped(c)
           /\ reqs'[c].op = "donate"
           /\ reqs'[c].pre # <<>>
           /\ reqs'[c].pre[1].status = "donated")
          => /\ items' = items
             /\ notifications' = notifications
             /\ reqs'[c].pc = "done" => reqs'[c].code >= 400]_vars

\* the item of a request was absent, or owned by another user, on arrival
NotVisibleOnArrival(q) ==
    \/ q.pre = <<>>
    \/ q.pre[1].user_id \notin {q.user, NULL}

\* C3: every step of a donate request for an item that does not exist, or is
\* owned by another user, changes no stored state, and its response is 404.
C3_DonateNotFound ==
    [][\A c \in Clients :
          (Stepped(c) /\ reqs'[c].op = "donate" /\ NotVisibleOnArrival(reqs'[c]))
          => /\ items' = items
             /\ notifications' = notifications
             /\ reqs'[c].pc = "done" => reqs'[c].code = 404]_vars

\* C4: a donated item stays donated for as long as it is stored, and only a
\* delete request removes it.
C4_DonatedIsTerminal ==
    [][\A r \in items :
          r.status = "donated" =>
              /\ \A r2 \in items' : r2.id = r.id => r2.status = "donated"
              /\ ById(items', r.id) = {} =>
                     \E c \in Clients : Stepped(c) /\ reqs'[c].op = "delete"]_vars

\* an update was applied to a donated item: its fields changed, it is still
\* stored and still donated
C4_Witness ==
    \E c \in Clients :
        /\ reqs[c].op = "update" /\ reqs[c].pc = "done" /\ reqs[c].code = 200
        /\ reqs[c].pre # <<>>
        /\ reqs[c].pre[1].status = "donated"
        /\ \E r \in items :
              /\ r.id = reqs[c].id
              /\ r.status = "donated"
              /\ r.expiry_date # reqs[c].pre[1].expiry_date

----------------------------------------------------------------------------
(* Properties of the display status and of the report *)

\* the rows a list or a report of user u covers in the running variant
Visible(r, u) == IF variant = "notif" THEN OwnedBy(r, u) ELSE OwnedOrShared(r, u)

DonatedIn(S, id) == \E r \in S : r.id = id /\ r.status = "donated"

\* C5: on every read path (list, update response, report) a stored item
\* whose persisted state is 'donated' is shown as 'donated', whatever its
\* expiry date and the current date.
C5_DonatedShownAsDonated ==
    [][\A c \in Clients :
          (Stepped(c) /\ reqs'[c].pc = "done" /\ reqs'[c].code = 200)
          => LET q == reqs'[c]
             IN  /\ q.op \in {"list", "update"} =>
                        \A i \in DOMAIN q.body :
                            DonatedIn(items, q.body[i].id) => q.body[i].status = "donated"
                 /\ q.op = "list" =>
                        \A r \in items :
                            Visible(r, q.user) => \E i \in DOMAIN q.body : q.body[i].id = r.id
                 /\ q.op = "report" =>
                        q.report.Donated =
                            Cardinality({r \in items :
                                            Visible(r, q.user) /\ r.status = "donated"})]_vars

\* a list shows as donated an item whose expiry date has passed
C5_Witness ==
    \E c \in Clients :
        /\ reqs[c].op = "list" /\ reqs[c].pc = "done"
        /\ \E i \in DOMAIN reqs[c].body :
              /\ reqs[c].body[i].status = "donated"
              /\ computeStatus(reqs[c].body[i].expiry_date, now, tz) = "expired"

\* the calendar day it is at the server
Today == (now + tz * Hour) \div Day

StoredRow(id) == CHOOSE r \in items : r.id = id

StatusSum(report) ==
    report.Donated + report.Expired + report.NearExpiry + report.Available

\* C7: the report counts every summarized item under exactly one of Donated,
\* Expired, NearExpiry, Available: the four counters add up to the number of
\* items visible to the user.
C7_StatusCountersSum ==
    \A c \in Clients :
        (reqs[c].op = "report" /\ reqs[c].pc = "done") =>
            StatusSum(reqs[c].report) =
                Cardinality({r \in items : Visible(r, reqs[c].user)})

\* a report over two items, one donated and one not
C7_Witness ==
    \E c \in Clients :
        /\ reqs[c].op = "report" /\ reqs[c].pc = "done"
        /\ reqs[c].report.Donated = 1
        /\ StatusSum(reqs[c].report) = 2

----------------------------------------------------------------------------
(* Token properties *)

\* the lifetime in seconds that a call of signToken asks for
Requested(opts) == IF opts.has THEN opts.expiresIn ELSE 7200

\* the token the last verification was about
Presented == IF auth.op = "verify" THEN auth.header.token ELSE bearerToken(auth.header)

Verifying == auth.op \in {"verify", "required"} /\ Presented.parts # 0

Accepted ==
    \/ auth.op = "verify" /\ auth.error = ""
    \/ auth.op = "required" /\ auth.next = 1 /\ auth.code = 0

Refused ==
    \/ auth.op = "verify" /\ auth.error # ""
    \/ auth.op = "required" /\ auth.next = 0 /\ auth.code = 401

SignedWithSecret(k) == k.parts = 3 /\ k.sig.key = secret /\ k.sig.over = k.payload

\* C8: verifying an issued token before its requested lifetime has passed
\* returns the id and email it was issued for, and an expiry that is the
\* requested lifetime after the issue time, 7200 seconds when none was given.
C8_IssueVerifyRoundTrip ==
    \A k \in tokens :
        (auth.op = "verify" /\ auth.header.token = k.token
                            /\ auth.at < k.at + Requested(k.opts))
        => /\ auth.error = ""
           /\ auth.user.id = k.user.id
           /\ auth.user.email = k.user.email
           /\ auth.user.iat = k.at
           /\ auth.user.exp - auth.user.iat = Requested(k.opts)

C8_Witness ==
    \E k \in tokens :
        /\ auth.op = "verify" /\ auth.header.token = k.token
        /\ ~k.opts.has /\ auth.at = k.at + 7199
        /\ auth.error = "" /\ auth.user.id = k.user.id

\* C9: with a secret configured, a token not signed with it is refused, a
\* token presented at or after its expiry is refused, a token signed with it
\* and presented before its expiry is accepted; so an issued token is
\* accepted exactly at the instants before issue time plus lifetime.
C9_VerifyBySignatureAndExpiry ==
    (Verifying /\ secret # NoSecret)
    => /\ ~SignedWithSecret(Presented) => Refused
       /\ auth.at >= Presented.payload.exp => Refused
       /\ (SignedWithSecret(Presented) /\ auth.at < Presented.payload.exp) => Accepted
       /\ \A k \in tokens :
              Presented = k.token =>
                  /\ auth.at < k.at + Requested(k.opts) => Accepted
                  /\ auth.at >= k.at + Requested(k.opts) => Refused

C9_Witness ==
    \E k \in tokens :
        /\ auth.op = "required" /\ Presented = k.token
        /\ auth.at = k.at + Requested(k.opts)
        /\ auth.code = 401 /\ auth.next = 0

\* C10: with no secret configured, a request with a bearer token through
\* authRequired is not answered 401, a login with good credentials issues no
\* token and reports the missing secret, and so do signToken and verifyToken.
C10_NoSecretIsConfigurationError ==
    secret = NoSecret
    => /\ (auth.op = "required" /\ Presented.parts # 0) => auth.code # 401
       /\ (auth.op = "login" /\ auth.error # "Invalid credentials")
              => auth.token = NoToken /\ auth.error = MissingSecret
       /\ auth.op \in {"sign", "verify"} => auth.error = MissingSecret

----------------------------------------------------------------------------
(* Middleware properties *)

\* the response of authRequired to header h now, when it is a denial
Denial(h) == authRequired(h, now)

\* C11: any two requests that authRequired denies with 401 at the same
\* instant get the same error body, whatever the cause of the denial.
C11_UniformDenial ==
    \A h1, h2 \in Headers :
        (Denial(h1).code = 401 /\ Denial(h2).code = 401)
        => Denial(h1).error = Denial(h2).error

\* the last request carried "Bearer " and a token that verifies at that time
BearerVerified ==
    /\ auth.header.scheme = "Bearer"
    /\ secret # NoSecret
    /\ SignedWithSecret(auth.header.token)
    /\ auth.at < auth.header.token.payload.exp

\* C12: authRequired calls next only for a header with the Bearer prefix
\* whose token verifies, attaching the token's payload; in every other case
\* it answers 401, attaches nothing and does not call next.
C12_MandatoryMode ==
    auth.op = "required"
    => IF BearerVerified
       THEN auth.next = 1 /\ auth.code = 0 /\ auth.user = auth.header.token.payload
       ELSE auth.next = 0 /\ auth.code = 401 /\ auth.user = NoPayload

C12_Witness ==
    /\ auth.op = "required" /\ auth.header.scheme = "Basic"
    /\ auth.header.token \in Issued /\ auth.at < auth.header.token.payload.exp
    /\ auth.code = 401 /\ auth.next = 0

\* C13: optionalAuth calls next exactly once and sends no response; it
\* attaches the token's payload when a bearer token verifies and nothing
\* otherwise.
C13_OptionalMode ==
    auth.op = "optional"
    => /\ auth.next = 1 /\ auth.code = 0 /\ auth.error = ""
       /\ auth.user = IF BearerVerified THEN auth.header.token.payload ELSE NoPayload

C13_Witness ==
    /\ auth.op = "optional" /\ auth.header.scheme = "Bearer"
    /\ auth.header.token \in Issued /\ auth.at >= auth.header.token.payload.exp
    /\ auth.next = 1 /\ auth.user = NoPayload

----------------------------------------------------------------------------
(* Registration properties *)

\* client c's request arrives in this step
Arrives(c) == issued' = issued + 1 /\ regs'[c] # regs[c]

\* a stored code record for this email and code that has not expired at t
Outstanding(email, code, t) ==
    \E r \in codes : r.email = email /\ r.code = code /\ r.expires_at > t

RegisterOk(q) == q.op = "register" /\ q.pc = "done" /\ q.status \in {200, 201}

\* C14: a step that creates a user belongs to a register request whose
\* validation found a stored code record for the user's email carrying the
\* submitted code and unexpired at validation time.
C14_UserOnlyAfterAcceptedCode ==
    [][\A u \in users' \ users :
          \E c \in Clients :
              /\ regs[c].op = "register" /\ regs[c].email = u.email
              /\ regs[c].codeRows # <<>>
              /\ regs[c].codeRows[1] \in codes
              /\ regs[c].codeRows[1].email = u.email
              /\ regs[c].codeRows[1].code = regs[c].code
              /\ regs[c].codeRows[1].expires_at > regs[c].at]_vars

\* C15: in the variants with verification codes, a register request that
\* arrives when no stored record has its email, its code and an expires_at
\* later than now is answered 400, with the invalid-or-expired-code error
\* when email and password are present, and creates no user.
C15_RegisterRejectedWithoutValidCode ==
    [][\A c \in Clients :
          (/\ HasCodes /\ Arrives(c) /\ regs'[c].op = "register"
           /\ ~Outstanding(regs'[c].email, regs'[c].code, now))
          => /\ regs'[c].pc = "done" /\ regs'[c].status = 400
             /\ (regs'[c].email # "" /\ regs'[c].password # "")
                    => regs'[c].error = InvalidCode
             /\ users' = users]_vars

C15_Witness ==
    \E c \in Clients : \E r \in codes :
        /\ regs[c].op = "register" /\ regs[c].pc = "done"
        /\ r.email = regs[c].email /\ r.code = regs[c].code
        /\ r.expires_at = regs[c].at
        /\ regs[c].status = 400 /\ regs[c].error = InvalidCode
        /\ users = {}

\* C16: a register request that submits an email and code with which a
\* register request has already succeeded is not accepted by validation.
C16_CodeSingleUse ==
    [][\A c \in Clients :
          (/\ HasCodes /\ Arrives(c) /\ regs'[c].op = "register"
           /\ \E d \in Clients : /\ RegisterOk(regs[d])
                                 /\ regs[d].email = regs'[c].email
                                 /\ regs[d].code = regs'[c].code)
          => regs'[c].codeRows = <<>> /\ regs'[c].status = 400]_vars

\* C17: no step removes or changes a code record and each send-code with an
\* email adds one; a register request with email and password whose code is
\* the code of any unexpired record of that email, the latest or not, passes
\* validation.
C17_EarlierCodesStayValid ==
    [][/\ codes \subseteq codes'
       /\ \A c \in Clients :
             (Arrives(c) /\ regs'[c].op = "send" /\ regs'[c].email # "")
             => Cardinality(codes') = Cardinality(codes) + 1
       /\ \A c \in Clients :
             (/\ HasCodes /\ Arrives(c) /\ regs'[c].op = "register"
              /\ regs'[c].email # "" /\ regs'[c].password # ""
              /\ Outstanding(regs'[c].email, regs'[c].code, now))
             => /\ regs'[c].pc = "exists"
                /\ regs'[c].codeRows # <<>>
                /\ regs'[c].codeRows[1].code = regs'[c].code]_vars

C17_Witness ==
    \E c \in Clients : \E r1, r2 \in codes :
        /\ r1.email = r2.email /\ r1.id < r2.id /\ r1.code # r2.code
        /\ regs[c].op = "register" /\ regs[c].codeRows = <<r1>>
        /\ r2.expires_at > regs[c].at

\* C18: there is at most one user per email and at most one successful
\* register per email; a register that reaches the uniqueness check when
\* the email is registered is answered 409 and creates no user.
C18_UniqueEmails ==
    [][/\ \A u, v \in users' : u.email = v.email => u = v
       /\ \A c, d \in Clients :
             (RegisterOk(regs'[c]) /\ RegisterOk(regs'[d])
              /\ regs'[c].email = regs'[d].email) => c = d
       /\ \A c \in Clients :
             (/\ regs'[c] # regs[c] /\ regs'[c].op = "register"
              /\ \/ regs[c].pc = "exists"
                 \/ variant = "strict" /\ Arrives(c)
                       /\ regs'[c].email # "" /\ regs'[c].password # ""
              /\ emailTaken(regs'[c].email))
             => /\ regs'[c].pc = "done" /\ regs'[c].status = 409
                /\ regs'[c].error = "Email already registered"
                /\ users' = users]_vars

C18_Witness ==
    \E c, d \in Clients :
        /\ c # d /\ regs[c].email = regs[d].email
        /\ RegisterOk(regs[c])
        /\ regs[d].op = "register" /\ regs[d].pc = "done" /\ regs[d].status = 500
        /\ Cardinality({u \in users : u.email = regs[c].email}) = 1

\* C19: a send-code request whose mail dispatch failed is answered 500 and
\* leaves no unexpired code record with its email and code.
C19_SendCodeAllOrNothing ==
    \A c \in Clients :
        (regs[c].op = "send" /\ regs[c].pc = "done" /\ regs[c].status # 200
                             /\ regs[c].email # "")
        => /\ regs[c].status = 500
           /\ ~Outstanding(regs[c].email, regs[c].code, now)

RECURSIVE decimal(_)
decimal(digits) ==
    IF digits = <<>> THEN 0
    ELSE 10 * decimal(SubSeq(digits, 1, Len(digits) - 1)) + digits[Len(digits)]

\* C20: every stored code is six decimal digits with a value from 100000 to
\* 999999, and the record of a send-code request expires the configured
\* number of minutes after the request, 600 seconds when none is configured.
C20_CodeShapeAndExpiry ==
    /\ \A r \in codes :
          /\ Len(r.code) = 6
          /\ \A i \in 1..Len(r.code) : r.code[i] \in 0..9
          /\ decimal(r.code) >= 100000 /\ decimal(r.code) <= 999999
    /\ \A c \in Clients :
          (regs[c].op = "send" /\ regs[c].email # "")
          => \E r \in codes :
                /\ r.email = regs[c].email /\ r.code = regs[c].code
                /\ r.expires_at - regs[c].at =
                       IF window = NoWindow THEN 600 ELSE 60 * Number(window)

C20_Witness ==
    \E r \in codes :
        /\ r.code = <<9, 9, 9, 9, 9, 9>> /\ window = NoWindow
        /\ \E c \in Clients : /\ regs[c].op = "send" /\ regs[c].code = r.code
                              /\ regs[c].at > 0 /\ r.expires_at = regs[c].at + 600

----------------------------------------------------------------------------
(* Properties of validation, create, update, delete and the lists *)

\* a draft that breaks one of the three rules of the name, the quantity and
\* the category
Unacceptable(d) ==
    \/ ~d.named \/ trim(d.name) = <<>>
    \/ ~isInteger(d.quantity) \/ d.quantity <= 0
    \/ d.category \notin allowed

\* a create or update request that was validated
Validated(q) == q.op \in {"create", "update"} /\ q.pc # "idle"
Rejected400(q) == q.pc = "done" /\ q.code = 400 /\ q.error # ""

\* C21: validation returns an error for a draft whose name is missing or
\* empty after trimming, whose quantity is not a positive integer or whose
\* category is not one of the three; it returns no error (and does not
\* throw) for a draft that satisfies the three rules and, in the strict
\* variant, has an expiry date on or after today.
C21_ValidateRules ==
    \A c \in Clients :
        LET q == reqs[c] IN
        Validated(q) =>
            /\ Unacceptable(q.draft) => Rejected400(q)
            /\ (~Unacceptable(q.draft) /\ (variant = "strict" => q.draft.expiry_date >= Today))
                   => ~Rejected400(q) /\ q.error # TypeError

\* a create or update request arrives from client c in this step
ArrivesAt(c, ops) ==
    /\ reqs[c].pc \in {"idle", "done"}
    /\ reqs'[c] # reqs[c]
    /\ reqs'[c].op \in ops

\* a draft that fails validation: one of the three rules, or in the strict
\* variant an expiry date before today
FailsValidation(d) == Unacceptable(d) \/ (variant = "strict" /\ d.expiry_date < Today)

\* C22: a create or update request whose draft fails validation is answered
\* 400, and the item store and the notification store are as before it.
C22_InvalidDraftChangesNothing ==
    [][\A c \in Clients :
          (ArrivesAt(c, {"create", "update"}) /\ FailsValidation(reqs'[c].draft))
          => /\ Rejected400(reqs'[c])
             /\ items' = items
             /\ notifications' = notifications]_vars

\* the notifications stored for user u
NotesOf(u) == SelectSeq(notifications, LAMBDA n : n.user_id = u)

\* C23: in the variant with notifications, a create request that was
\* answered with success left exactly one item of its id, owned by the
\* caller and stored as 'normal', returned it as 'available', and left
\* exactly one notification, for the caller; and when no notification was
\* stored the item is not stored either.  (One request per run, from an
\* empty notification store.)
C23_CreateItemAndNotification ==
    \A c \in Clients :
        LET q == reqs[c]
            new == ById(items, q.id)
        IN  (variant = "notif" /\ q.op = "create" /\ q.pc = "done")
            => /\ q.code \in {200, 201}
                  => /\ Cardinality(new) = 1
                     /\ \A r \in new : r.user_id = q.user /\ r.status = "normal"
                     /\ Len(q.body) = 1 /\ q.body[1].status = "available"
                     /\ Len(notifications) = 1
                     /\ notifications[1].user_id = q.user
               /\ notifications = <<>> => new = {}

\* C24: when a user lists the inventory after a create request of that user
\* succeeded, the list holds the created item with the status that the
\* status engine gives for the expiry date the user submitted
\* ('near_expiry' for today + 2).
C24_ListedStatusOfSubmittedDate ==
    [][\A c \in Clients : \A p \in Clients :
          (/\ ArrivesAt(c, {"list"})
           /\ reqs[p].op = "create" /\ reqs[p].pc = "done" /\ reqs[p].code \in {200, 201}
           /\ reqs[p].user = reqs'[c].user)
          => \E i \in 1..Len(reqs'[c].body) :
                /\ reqs'[c].body[i].id = reqs[p].id
                /\ reqs'[c].body[i].status =
                       computeStatus(reqs[p].draft.expiry_date, now, tz)]_vars

\* C25: the UPDATE of an update request changes no row but the one with the
\* request's id, and that one only when its owner is the caller or null; it
\* adds and removes no row, and when no row has the id or the row belongs to
\* another user the item store is unchanged.
C25_UpdateOnlyOwnOrShared ==
    [][\A c \in Clients :
          ArrivesAt(c, {"update"})
          => LET q == reqs'[c] IN
             /\ \A r \in items \ items' :
                   r.id = q.id /\ (r.user_id = q.user \/ r.user_id = NULL)
             /\ {r.id : r \in items'} = {r.id : r \in items}
             /\ Cardinality(items') = Cardinality(items)
             /\ (\A r \in ById(items, q.id) : r.user_id \notin {q.user, NULL})
                   => items' = items]_vars

\* an update request for another user's item has been answered and the item
\* is as it was
C25_Witness ==
    \E c \in Clients :
        /\ reqs[c].op = "update" /\ reqs[c].pc = "done"
        /\ reqs[c].pre # <<>>
        /\ reqs[c].pre[1].user_id \notin {reqs[c].user, NULL}
        /\ reqs[c].pre[1] \in items

\* C26: the response of an update or donate request never holds a row whose
\* owner is a user other than the caller: for an item that is missing or
\* not the caller's it is empty or an error.
C26_NoForeignRowInResponse ==
    \A c \in Clients :
        (reqs[c].op \in {"update", "donate"} /\ reqs[c].pc = "done")
        => \A i \in 1..Len(reqs[c].body) :
              reqs[c].body[i].user_id \in {reqs[c].user, NULL}

\* C27: the DELETE of a delete request removes at most one row, with the
\* request's id and an owner that is the caller or null, and changes no
\* other row; a finished delete request reports success whether or not a
\* row matched; and a delete that repeats the client's previous, finished
\* delete of an item that existed then (same id, same caller) leaves the
\* item store unchanged.
C27_DeleteOwnOnceIdempotent ==
    [][\A c \in Clients :
          /\ ArrivesAt(c, {"delete"})
             => LET q == reqs'[c] IN
                /\ items' \subseteq items
                /\ Cardinality(items \ items') <= 1
                /\ \A r \in items \ items' :
                      r.id = q.id /\ (r.user_id = q.user \/ r.user_id = NULL)
                /\ (reqs[c].op = "delete" /\ reqs[c].pc = "done" /\ reqs[c].pre # <<>>
                    /\ reqs[c].id = q.id /\ reqs[c].user = q.user)
                      => items' = items
          /\ (reqs'[c].op = "delete" /\ reqs'[c].pc = "done")
             => reqs'[c].code \in {200, 204}]_vars

\* a user's delete removed the row, and the same delete sent again found no
\* row and reported success
C27_Witness ==
    \E c \in Clients : \E p \in Clients \ {c} :
        /\ reqs[c].op = "delete" /\ reqs[c].pc = "done" /\ reqs[c].code \in {200, 204}
        /\ reqs[p].op = "delete" /\ reqs[p].pc = "done" /\ reqs[p].code \in {200, 204}
        /\ reqs[c].id = reqs[p].id /\ reqs[c].user = reqs[p].user
        /\ reqs[p].pre # <<>> /\ reqs[p].pre[1] \notin items
        /\ reqs[c].pre = <<>>

\* C28: the list answered to a user holds exactly the items that the user
\* owns and the items without owner, each once and none of another user, in
\* ascending order of expiry date, each with the status computed for the
\* current date ('donated' for a donated item).
C28_ListOwnAndShared ==
    [][\A c \in Clients :
          ArrivesAt(c, {"list"})
          => LET q == reqs'[c]
                 n == Len(q.body)
             IN  /\ {q.body[i].id : i \in 1..n} =
                        {r.id : r \in {x \in items : x.user_id \in {q.user, NULL}}}
                 /\ \A i \in 1..n : \A j \in 1..n : i < j =>
                        /\ q.body[i].id # q.body[j].id
                        /\ q.body[i].expiry_date <= q.body[j].expiry_date
                 /\ \A i \in 1..n :
                        q.body[i].status =
                            IF StoredRow(q.body[i].id).status = "donated" THEN "donated"
                            ELSE computeStatus(q.body[i].expiry_date, now, tz)]_vars

C30_EveryRequestAnswered ==
    \A c \in Clients : reqs[c].pc # "crashed"

----------------------------------------------------------------------------
(* Properties of login, the stored status, isolation and the report *)

\* the users whose email and password a login request submitted
Matching(q) ==
    {u \in users : u.email = q.email /\ u.password_hash = bcryptHash(q.password)}

LoginChecked(q) ==
    q.op = "login" =>
        /\ q.status = 200 <=> q.token # NoToken
        /\ q.token # NoToken
           => \E u \in Matching(q) :
                 q.token.payload.id = u.id /\ q.token.payload.email = u.email
        /\ (/\ q.pc = "done"
            /\ q.email \notin {Undefined, ""} /\ q.password \notin {Undefined, ""}
            /\ Matching(q) = {})
           => q.status = 401 /\ q.error = "Invalid credentials"

\* C31: a login request gets a token only when a user with the submitted
\* email exists whose stored hash matches the submitted password, and the
\* token's claims are that user's id and email; a login with an unknown
\* email and one with a wrong password are both answered 401 with the body
\* 'Invalid credentials'; and no step of a login changes the stored users,
\* codes, items or notifications.
C31_LoginOnlyWithMatchingPassword ==
    [][/\ \A c \in Clients : LoginChecked(regs'[c])
       /\ users' = users /\ codes' = codes
       /\ items' = items /\ notifications' = notifications]_vars

\* one client has logged in, the other was refused for a wrong password of a
\* registered email
C31_Witness ==
    \E c \in Clients : \E d \in Clients :
        /\ regs[c].op = "login" /\ regs[c].status = 200 /\ regs[c].token # NoToken
        /\ regs[d].op = "login" /\ regs[d].status = 401
        /\ \E u \in users : u.email = regs[d].email
        /\ regs[d].password \notin {Undefined, ""}

\* C32: after every step the stored status of every item is 'normal' or
\* 'donated'; a row that a step adds is stored as 'normal'; and the stored
\* status of an existing row changes only in a step of a donate request for
\* that row, to 'donated'.
C32_StoredStatusNormalOrDonated ==
    [][/\ \A r \in items' : r.status \in {"normal", "donated"}
       /\ \A r \in items' :
             r.id \notin {x.id : x \in items} => r.status = "normal"
       /\ \A r \in items : \A r2 \in items' :
             (r2.id = r.id /\ r2.status # r.status)
             => /\ r2.status = "donated"
                /\ \E c \in Clients :
                      /\ reqs'[c] # reqs[c]
                      /\ reqs'[c].op = "donate" /\ reqs'[c].id = r.id]_vars

\* an item that was created through the API and has been listed as
\* 'available' is stored as 'normal', next to an item stored as 'donated'
\* after a donate request
C32_Witness ==
    /\ \E c \in Clients :
          /\ reqs[c].op = "create" /\ reqs[c].pc = "done" /\ reqs[c].code \in {200, 201}
          /\ reqs[c].body[1].status = "available"
          /\ \E r \in items : r.id = reqs[c].id /\ r.status = "normal"
    /\ \E c \in Clients :
          /\ reqs[c].op = "donate" /\ reqs[c].pc = "done" /\ reqs[c].code = 200
          /\ \E r \in items : r.id = reqs[c].id /\ r.status = "donated"

\* C33: a step of an update, delete or donate request of a user changes or
\* removes no item whose owner is another user.
C33_NoMutationOfForeignItems ==
    [][\A c \in Clients :
          (reqs'[c] # reqs[c] /\ reqs'[c].op \in {"update", "delete", "donate"})
          => \A r \in items \ items' : r.user_id \in {reqs'[c].user, NULL}]_vars

\* the row that a delete or donate request removed or transitioned: it
\* existed when the request arrived, was the caller's (or without owner)
\* and, for a donate, was not donated yet
Effective(q) ==
    /\ q.pre # <<>>
    /\ q.pre[1].user_id \in {q.user, NULL}
    /\ q.op = "donate" => q.pre[1].status # "donated"

\* C34: a step of a delete or donate request adds a notification only when
\* the request removed or transitioned an item.
C34_NotificationOnlyForEffect ==
    [][\A c \in Clients :
          (/\ reqs'[c] # reqs[c]
           /\ reqs[c].op \in {"delete", "donate"}
           /\ Len(notifications') > Len(notifications))
          => Effective(reqs[c])]_vars

\* C35: when a user lists the inventory after a create request of that user
\* succeeded, on the same day, the list reports for the created item the
\* status that the create response carried.
C35_CreateStatusEqualsListStatus ==
    [][\A c \in Clients : \A p \in Clients :
          (/\ ArrivesAt(c, {"list"})
           /\ reqs[p].op = "create" /\ reqs[p].pc = "done" /\ reqs[p].code \in {200, 201}
           /\ reqs[p].user = reqs'[c].user
           /\ reqs[p].draft.expiry_date >= Today)
          => \A i \in 1..Len(reqs'[c].body) :
                reqs'[c].body[i].id = reqs[p].id
                => reqs'[c].body[i].status = reqs[p].body[1].status]_vars

\* C36: every row that a create or update request writes holds the expiry
\* date that the request submitted.
C36_StoredDateIsSubmittedDate ==
    [][\A c \in Clients :
          ArrivesAt(c, {"create", "update"})
          => \A r \in items' \ items : r.expiry_date = reqs'[c].draft.expiry_date]_vars

\* the order of the statuses of an item that is not donated
Rank(st) == IF st = "available" THEN 1 ELSE IF st = "near_expiry" THEN 2 ELSE 3

\* C37: while the store is not changed, the display status of an item that
\* is not donated never moves back along available, near_expiry, expired as
\* time advances, and eventually every item that is not donated is expired.
C37_StatusOnlyMovesForward ==
    /\ [][\A r \in items :
             (items' = items /\ r.status # "donated")
             => Rank(displayStatus(r, now', tz)) >= Rank(displayStatus(r, now, tz))]_vars
    /\ <>(\A r \in items : displayStatus(r, now, tz) \in {"expired", "donated"})

\* an item that was 'available' when the run started has been listed as
\* 'expired'
C37_Witness ==
    /\ reqs["c1"].op = "list" /\ reqs["c1"].pc = "done"
    /\ \E i \in 1..Len(reqs["c1"].body) :
          /\ reqs["c1"].body[i].status = "expired"
          /\ computeStatus(reqs["c1"].body[i].expiry_date, 12 * Hour, tz) = "available"

\* the number of rows of a list that carry the status st
Listed(body, st) == Cardinality({i \in 1..Len(body) : body[i].status = st})

\* C38: for a list and a report answered to the same user over the same
\* store at the same time, the report's Donated, Expired, NearExpiry and
\* Available are the numbers of listed items with the status donated,
\* expired, near_expiry and available.
C38_ReportCountsMatchList ==
    \A c \in Clients : \A p \in Clients :
        (/\ reqs[c].op = "list" /\ reqs[c].pc = "done"
         /\ reqs[p].op = "report" /\ reqs[p].pc = "done"
         /\ reqs[c].user = reqs[p].user)
        => /\ reqs[p].report.Donated = Listed(reqs[c].body, "donated")
           /\ reqs[p].report.Expired = Listed(reqs[c].body, "expired")
           /\ reqs[p].report.NearExpiry = Listed(reqs[c].body, "near_expiry")
           /\ reqs[p].report.Available = Listed(reqs[c].body, "available")

\* a user has a list of two items with different statuses, one of them
\* donated, and a report
C38_Witness ==
    \E c \in Clients : \E p \in Clients :
        /\ reqs[c].op = "list" /\ reqs[c].pc = "done"
        /\ reqs[p].op = "report" /\ reqs[p].pc = "done"
        /\ reqs[c].user = reqs[p].user
        /\ Len(reqs[c].body) = 2
        /\ reqs[c].body[1].status # reqs[c].body[2].status
        /\ reqs[p].report.Donated = 1

\* C39: the UPDATE of an update request leaves every row with its id, its
\* owner and its stored status, and adds and removes none; and the answer
\* of an update request returns a row that is stored as donated with the
\* status 'donated'.
C39_UpdateKeepsIdOwnerStatus ==
    [][\A c \in Clients :
          /\ ArrivesAt(c, {"update"})
             => /\ \A r \in items : \E r2 \in items' :
                      r2.id = r.id /\ r2.user_id = r.user_id /\ r2.status = r.status
                /\ Cardinality(items') = Cardinality(items)
          /\ (reqs[c].op = "update" /\ reqs[c].pc # "done"
              /\ reqs'[c].pc = "done" /\ reqs'[c].code = 200)
             => \A i \in 1..Len(reqs'[c].body) :
                   (\E r \in items' : r.id = reqs'[c].body[i].id /\ r.status = "donated")
                   => reqs'[c].body[i].status = "donated"]_vars

\* the owner's update of a donated item has changed its fields and was
\* answered with the item, status 'donated'
C39_Witness ==
    \E c \in Clients :
        /\ reqs[c].op = "update" /\ reqs[c].pc = "done" /\ reqs[c].code = 200
        /\ reqs[c].pre # <<>> /\ reqs[c].pre[1].status = "donated"
        /\ reqs[c].pre[1] \notin items
        /\ Len(reqs[c].body) = 1 /\ reqs[c].body[1].status = "donated"
        /\ reqs[c].body[1].user_id = reqs[c].pre[1].user_id

\* the items that a report of user u summarizes
Summarized(u) ==
    {r \in items : r.user_id = u \/ (variant # "notif" /\ r.user_id = NULL)}

\* C40: in a report, each of Pantry, Refrigerated and Frozen is the number
\* of summarized items of that category, so an item adds to at most one of
\* them, and their sum is the number of summarized items: every stored
\* category is one of the three.
C40_CategoryCountersSumToItems ==
    [][\A c \in Clients :
          ArrivesAt(c, {"report"})
          => LET rep == reqs'[c].report
                 rows == Summarized(reqs'[c].user)
             IN  /\ \A k \in {"Pantry", "Refrigerated", "Frozen"} :
                       rep[k] = Cardinality({r \in rows : r.category = k})
                 /\ rep.Pantry + rep.Refrigerated + rep.Frozen = Cardinality(rows)]_vars

\* a report over two items of different categories, one of them stored by a
\* create request
C40_Witness ==
    \E c \in Clients : \E p \in Clients :
        /\ reqs[c].op = "report" /\ reqs[c].pc = "done"
        /\ reqs[c].report.Pantry = 1
        /\ reqs[c].report.Frozen + reqs[c].report.Refrigerated = 1
        /\ reqs[p].op = "create" /\ reqs[p].code = 201

====
